---- MODULE Spec2Model ----
(***************************************************************************)
(* The rickover static-site scripts as state machines.                     *)
(*                                                                         *)
(*   SpecGenerate : scripts/generate_pages.py  main()                      *)
(*   SpecPipeline : scripts/pipeline.py        main()                      *)
(*   SpecRetry    : the Gemini retry loops of scripts/gemini_ocr.py        *)
(*                  (extract_chunk_with_gemini) and                        *)
(*                  scripts/gemini_html_cleanup.py (clean_with_gemini)     *)
(*   SpecCase     : scripts/cleanup_posts.py   sentence_case,              *)
(*                  title_case_smart                                       *)
(*   SpecCleanup  : scripts/cleanup_posts.py   clean_ocr_div               *)
(*   SpecCleanupMain : scripts/gemini_html_cleanup.py  main()              *)
(*   SpecSlug     : the slugify of pipeline.py and of generate_pages.py    *)
(*                                                                         *)
(* Python strings are sequences of one-character strings, dicts are        *)
(* functions whose DOMAIN is the set of keys present, directories are      *)
(* functions from file name to file content.                               *)
(***************************************************************************)
EXTENDS Integers, Sequences, FiniteSets, TLC

VARIABLES
  pc,               \* position in the running script's main()
  manifest,         \* the list json.load returned (entries are mutated in place)
  idx,              \* index of the next entry of the for-loop (1-based)
  args,             \* argparse result: [max_pages, types]
  posts,            \* POSTS_DIR: file name -> page
  postsB,           \* POSTS_DIR of a second run of generate_pages on the same manifest
  blog,             \* blog.html: the cards' hrefs in order; NoBlog until written
  manifestFile,     \* manifest.json on disk
  updated_manifest, \* pipeline.main's updated_manifest list
  ocr_output,       \* OCR_OUTPUT_DIR: file name -> content
  manifest0,        \* history: the manifest as json.load returned it
  posts0,           \* history: POSTS_DIR when main started
  postsB0,          \* history: the second run's POSTS_DIR when it started
  ocr0,             \* history: OCR_OUTPUT_DIR when main started
  paths,            \* history: the branch each entry of the loop took
  http,             \* history: entries for which requests.get was issued
  ocred,            \* history: entries for which convert_from_path/tesseract ran
  wrote,            \* history: entries for which post_path.write_text ran
  txtWritten,       \* history: names of the .txt files written by ocr_pdf
  fn,               \* SpecRetry: the function being run
  attempt,          \* SpecRetry: the retry loop's attempt variable
  sleeps,           \* SpecRetry: the time.sleep calls so far, in order
  uploaded,         \* SpecRetry: state name of the uploaded file
  deleted,          \* SpecRetry: client.files.delete was called
  polls,            \* SpecRetry: client.files.get calls so far
  response,         \* SpecRetry: response.text of the successful generate_content
  result,           \* SpecRetry: the value the function returned
  title_in,         \* SpecSlug: the title both slugify functions are applied to
  slug_gen,         \* SpecSlug: what generate_pages.slugify returned
  slug_pipe,        \* SpecSlug: what pipeline.slugify returned
  case_text,        \* SpecCase: the text the case functions are applied to
  sentence_cased,   \* SpecCase: what sentence_case returned
  title_cased,      \* SpecCase: what title_case_smart returned
  ocr_div,          \* SpecCleanup: the <p> paragraphs clean_ocr_div found, in order
  cleaned_paragraphs, \* SpecCleanup: clean_ocr_div's cleaned_paragraphs list
  fates,            \* SpecCleanup history: the branch each paragraph took
  gemini_posts,     \* SpecCleanupMain: the list get_gemini_posts returned
  cleaned,          \* SpecCleanupMain: main's cleaned counter
  events            \* SpecCleanupMain history: generate_content calls and sleeps

vars == <<pc, manifest, idx, args, posts, postsB, blog, manifestFile,
          updated_manifest, ocr_output, manifest0, posts0, postsB0, ocr0,
          paths, http, ocred, wrote, txtWritten, fn, attempt, sleeps, uploaded, deleted,
          polls, response, result, title_in, slug_gen, slug_pipe, case_text,
          sentence_cased, title_cased, ocr_div, cleaned_paragraphs, fates, gemini_posts,
          cleaned, events>>

genVars   == <<manifest, idx, posts, postsB, blog, manifestFile, manifest0, posts0,
               postsB0>>
pipeVars  == <<args, updated_manifest, ocr_output, ocr0, paths, http,
               ocred, wrote, txtWritten>>
retryVars == <<fn, attempt, sleeps, uploaded, deleted, polls, response, result>>
textVars  == <<title_in, slug_gen, slug_pipe, case_text, sentence_cased, title_cased,
               ocr_div, cleaned_paragraphs, fates, gemini_posts, cleaned, events>>

(***************************************************************************)
(* Bounds                                                                  *)
(***************************************************************************)
MaxEntries == 2    \* longest manifest
MaxPages == 2      \* largest page count of a remote PDF
MaxPolls == 2      \* most client.files.get polls while a file is PROCESSING
MaxContext == 1    \* most words before, and after, the acronym of a text
MaxParagraphs == 2 \* most <p> paragraphs of an OCR div
MaxTitleLen == 3   \* longest title given to both slugify functions

(***************************************************************************)
(* Strings                                                                 *)
(***************************************************************************)
Min(a, b) == IF a < b THEN a ELSE b

\* str.lower on the letters the model's titles use
Lower(c) == CASE c = "A" -> "a" [] c = "B" -> "b" [] c = "U" -> "u" [] OTHER -> c

\* \w of the re module: letters, digits, underscore
WordChars == {"a", "b", "d", "e", "i", "l", "n", "t", "u", "A", "B", "U", "_"}
\* \s of the re module
SpaceChars == {" "}

RECURSIVE DropWhile(_, _)
DropWhile(s, S) ==
  IF s # <<>> /\ Head(s) \in S THEN DropWhile(Tail(s), S) ELSE s

\* re.sub("[S]+", "-", s): every maximal run of characters of S becomes one "-"
RECURSIVE SubRuns(_, _)
SubRuns(s, S) ==
  IF s = <<>> THEN <<>>
  ELSE IF Head(s) \in S THEN <<"-">> \o SubRuns(DropWhile(Tail(s), S), S)
  ELSE <<Head(s)>> \o SubRuns(Tail(s), S)

RECURSIVE DropLast(_, _)
DropLast(s, S) ==
  IF s # <<>> /\ s[Len(s)] \in S THEN DropLast(SubSeq(s, 1, Len(s) - 1), S) ELSE s

\* str.strip(chars)
Strip(s, S) == DropLast(DropWhile(s, S), S)

\* s[:n]
Take(s, n) == SubSeq(s, 1, Min(n, Len(s)))

StartsWith(s, p) == Len(s) >= Len(p) /\ SubSeq(s, 1, Len(p)) = p
EndsWith(s, p) == Len(s) >= Len(p) /\ SubSeq(s, Len(s) - Len(p) + 1, Len(s)) = p

\* html.escape(s) with quote=True
EscapeChar(c) ==
  CASE c = "&" -> <<"&", "a", "m", "p", ";">>
    [] c = "<" -> <<"&", "l", "t", ";">>
    [] c = ">" -> <<"&", "g", "t", ";">>
    [] c = "\"" -> <<"&", "q", "u", "o", "t", ";">>
    [] c = "'" -> <<"&", "#", "x", "2", "7", ";">>
    [] OTHER -> <<c>>

RECURSIVE escape(_)
escape(s) == IF s = <<>> THEN <<>> ELSE EscapeChar(Head(s)) \o escape(Tail(s))

MaxSlugLen == 120

\* generate_pages.slugify
slugify(title) ==
  LET s1 == [k \in 1..Len(title) |-> Lower(title[k])]
      s2 == SelectSeq(s1, LAMBDA c : c \in WordChars \cup SpaceChars \cup {"-"})
      s3 == SubRuns(s2, SpaceChars \cup {"_"})
      s4 == SubRuns(s3, {"-"})
  IN  Take(Strip(s4, {"-"}), MaxSlugLen)

\* pipeline.slugify without title.lower()
pipeline_slugify_KeepCase(title) ==
  LET s2 == SelectSeq(title, LAMBDA c : c \in WordChars \cup SpaceChars \cup {"-"})
      s3 == SubRuns(s2, SpaceChars \cup {"_"})
      s4 == SubRuns(s3, {"-"})
  IN  Take(Strip(s4, {"-"}), MaxSlugLen)

\* pipeline.slugify
pipeline_slugify(title) ==
  LET s1 == [k \in 1..Len(title) |-> Lower(title[k])]
      s2 == SelectSeq(s1, LAMBDA c : c \in WordChars \cup SpaceChars \cup {"-"})
      s3 == SubRuns(s2, SpaceChars \cup {"_"})
      s4 == SubRuns(s3, {"-"})
  IN  Take(Strip(s4, {"-"}), MaxSlugLen)

(***************************************************************************)
(* Dicts and the literals of the scripts                                   *)
(***************************************************************************)
\* dict.get(k, d)
Get(e, k, d) == IF k \in DOMAIN e THEN e[k] ELSE d

\* e[k] = v
With(e, k, v) == [x \in DOMAIN e \cup {k} |-> IF x = k THEN v ELSE e[x]]

Without(e, k) == [x \in DOMAIN e \ {k} |-> e[x]]

Untitled == <<"U", "n", "t", "i", "t", "l", "e", "d">>
untitled == <<"u", "n", "t", "i", "t", "l", "e", "d">>
Document == <<"D", "o", "c", "u", "m", "e", "n", "t">>
PostsPrefix == <<"p", "o", "s", "t", "s", "/">>
HtmlExt == <<".", "h", "t", "m", "l">>
PdfExt == <<".", "p", "d", "f">>
TxtExt == <<".", "t", "x", "t">>

\* "posts/" + slug + ".html"
BlogPage(slug) == PostsPrefix \o slug \o HtmlExt

\* ROOT / blog_page, as a file name of POSTS_DIR (NoFile outside POSTS_DIR)
NoFile == <<"/">>
Resolve(page) ==
  IF StartsWith(page, PostsPrefix)
  THEN SubSeq(page, Len(PostsPrefix) + 1, Len(page))
  ELSE NoFile

\* path.write_text(content) in directory dir
WriteFile(dir, name, content) ==
  [n \in DOMAIN dir \cup {name} |-> IF n = name THEN content ELSE dir[n]]

\* path.unlink(missing_ok=True)
Unlink(dir, name) == [n \in DOMAIN dir \ {name} |-> dir[n]]

EmptyDir == [n \in {} |-> <<>>]

(***************************************************************************)
(* Manifest records and post pages                                         *)
(*                                                                         *)
(* A record carries the keys the scripts branch on or derive a path from   *)
(* (Title, Type, file_pdf, blog_page); Year, Summary, Source and file_OCR  *)
(* are copied into the page and never read otherwise, and are left out.    *)
(***************************************************************************)
T1 == <<"A", "b">>                 \* "Ab"
T2 == <<"a", "b", "&">>            \* "ab&"   same slug as T1
T3 == <<"a", " ", "_", "b">>       \* "a _b"
T4 == <<"!">>                      \* "!"     empty slug

TypeSpeech == <<"S">>
TypeMemo == <<"M">>

U1 == <<"h", "/", "a", ".", "p", "d", "f">>   \* "h/a.pdf"
U2 == <<"h", "/", "b">>                       \* "h/b"

\* a page some earlier run left in posts/, its OCR div holding cleaned text
OldPage ==
  [title |-> <<"o", "l", "d">>, doc_type |-> TypeMemo, pdf_url |-> U1,
   ocr_url |-> <<>>, body |-> <<"ocr", "cleaned">>]

\* generate_pages.generate_post
generate_post(entry) ==
  [title |-> escape(Get(entry, "Title", Untitled)),
   doc_type |-> escape(Get(entry, "Type", Document)),
   pdf_url |-> escape(Get(entry, "file_pdf", <<>>)),
   ocr_url |-> escape(Get(entry, "file_OCR", <<>>)),
   body |-> <<"placeholder">>]

\* ord() of the characters the model's titles use
Ord(c) ==
  CASE c = " " -> 32 [] c = "!" -> 33 [] c = "&" -> 38 [] c = "A" -> 65
    [] c = "_" -> 95 [] c = "a" -> 97 [] c = "b" -> 98 [] OTHER -> 0

\* a <= b for Python strings
RECURSIVE StrLeq(_, _)
StrLeq(a, b) ==
  IF a = <<>> THEN TRUE
  ELSE IF b = <<>> THEN FALSE
  ELSE IF Ord(Head(a)) < Ord(Head(b)) THEN TRUE
  ELSE IF Ord(Head(a)) > Ord(Head(b)) THEN FALSE
  ELSE StrLeq(Tail(a), Tail(b))

\* sorted(entries, key=lambda e: (-e.get("Year", 0), e.get("Title", ""))), stable;
\* the model's records have no Year, so the first component is always 0
SortKey(e) == Get(e, "Title", <<>>)

RECURSIVE sorted(_)
sorted(entries) ==
  IF entries = <<>> THEN <<>>
  ELSE LET front == sorted(SubSeq(entries, 1, Len(entries) - 1))
           x == entries[Len(entries)]
           k == Cardinality({j \in 1..Len(front) : StrLeq(SortKey(front[j]), SortKey(x))})
       IN  SubSeq(front, 1, k) \o <<x>> \o SubSeq(front, k + 1, Len(front))

\* the cards of generate_pages.generate_blog_index
generate_blog_index(entries) ==
  LET sorted_entries == sorted(entries)
  IN  [k \in 1..Len(sorted_entries) |->
         [href |-> BlogPage(slugify(Get(sorted_entries[k], "Title", untitled))),
          title |-> escape(Get(sorted_entries[k], "Title", Untitled))]]

NoBlog == [written |-> FALSE, cards |-> <<>>]

\* the variables of the scripts other than the one running, at rest; the
\* text functions run with every script at rest
Idle(running) ==
  /\ IF running \in {"slug", "case", "clean"}
     THEN /\ manifest = <<>>
          /\ idx = 1
          /\ args = [max_pages |-> 0, types |-> {}]
          /\ posts = EmptyDir
          /\ postsB = EmptyDir
          /\ blog = NoBlog
          /\ manifestFile = <<>>
          /\ updated_manifest = <<>>
          /\ ocr_output = EmptyDir
          /\ manifest0 = <<>>
          /\ posts0 = EmptyDir
          /\ postsB0 = EmptyDir
          /\ ocr0 = EmptyDir
          /\ paths = <<>>
          /\ http = {}
          /\ ocred = {}
          /\ wrote = {}
          /\ txtWritten = {}
          /\ fn = "none"
          /\ attempt = 0
          /\ sleeps = <<>>
          /\ uploaded = "none"
          /\ deleted = FALSE
          /\ polls = 0
          /\ response = <<>>
          /\ result = <<>>
     ELSE TRUE
  /\ IF running = "slug" THEN TRUE
     ELSE title_in = <<>> /\ slug_gen = <<>> /\ slug_pipe = <<>>
  /\ IF running = "case" THEN TRUE
     ELSE case_text = <<>> /\ sentence_cased = <<>> /\ title_cased = <<>>
  /\ IF running = "clean" THEN TRUE
     ELSE ocr_div = <<>> /\ cleaned_paragraphs = <<>> /\ fates = <<>>
  /\ IF running = "main" THEN TRUE
     ELSE gemini_posts = <<>> /\ cleaned = 0 /\ events = <<>>

\* what a step of the script running leaves alone in the other scripts
Frame(running) ==
  /\ IF running \in {"slug", "case", "clean"}
     THEN UNCHANGED <<genVars, pipeVars, retryVars>> ELSE TRUE
  /\ IF running = "main"
     THEN UNCHANGED <<manifest, args, postsB, blog, manifestFile, updated_manifest,
                      ocr_output, manifest0, posts0, postsB0, ocr0, http, ocred,
                      txtWritten, retryVars>>
     ELSE TRUE
  /\ IF running = "slug" THEN TRUE ELSE UNCHANGED <<title_in, slug_gen, slug_pipe>>
  /\ IF running = "case" THEN TRUE
     ELSE UNCHANGED <<case_text, sentence_cased, title_cased>>
  /\ IF running = "clean" THEN TRUE ELSE UNCHANGED <<ocr_div, cleaned_paragraphs, fates>>
  /\ IF running = "main" THEN UNCHANGED gemini_posts
     ELSE UNCHANGED <<gemini_posts, cleaned, events>>

(***************************************************************************)
(* generate_pages.main                                                     *)
(***************************************************************************)
GenTitles == {T1, T2, T3, T4}

GenEntries ==
  LET titled == {[Title |-> t, Type |-> TypeSpeech, file_pdf |-> U1] : t \in GenTitles}
      bare == {[Type |-> TypeSpeech, file_pdf |-> U1]}
      fresh == titled \cup bare
  IN  fresh \cup {With(e, "blog_page", BlogPage(<<"o", "l", "d">>)) : e \in fresh}

SeqsUpTo(S, n) == UNION {[1..k -> S] : k \in 0..n}

\* the file generate_pages.main writes for an entry
GenPostFile(entry) == slugify(Get(entry, "Title", Untitled)) \o HtmlExt

\* the posts directories an earlier run can have left for these files
DirsOver(names, content) == {[n \in S |-> content] : S \in SUBSET names}

GenInit ==
  /\ pc = "gen_posts"
  /\ idx = 1
  /\ manifest \in SeqsUpTo(GenEntries, MaxEntries)
  /\ manifestFile = manifest
  /\ manifest0 = manifest
  /\ posts \in DirsOver({GenPostFile(manifest[k]) : k \in 1..Len(manifest)}, OldPage)
  /\ postsB \in DirsOver({GenPostFile(manifest[k]) : k \in 1..Len(manifest)}, OldPage)
  /\ posts0 = posts
  /\ postsB0 = postsB
  /\ blog = NoBlog
  /\ args = [max_pages |-> 0, types |-> {}]
  /\ updated_manifest = <<>>
  /\ ocr_output = EmptyDir
  /\ ocr0 = EmptyDir
  /\ paths = <<>>
  /\ http = {}
  /\ ocred = {}
  /\ wrote = {}
  /\ txtWritten = {}
  /\ fn = "none"
  /\ attempt = 0
  /\ sleeps = <<>>
  /\ uploaded = "none"
  /\ deleted = FALSE
  /\ polls = 0
  /\ response = <<>>
  /\ result = <<>>
  /\ Idle("none")

\* GenWritePost, but a page that already exists is left as it is
GenWritePost_KeepExisting ==
  /\ pc = "gen_posts"
  /\ idx <= Len(manifest)
  /\ LET entry == manifest[idx]
         title == Get(entry, "Title", Untitled)
         slug == slugify(title)
         post_path == slug \o HtmlExt
         post_html == generate_post(entry)
     IN  /\ posts' = IF post_path \in DOMAIN posts THEN posts
                     ELSE WriteFile(posts, post_path, post_html)
         /\ postsB' = IF post_path \in DOMAIN postsB THEN postsB
                      ELSE WriteFile(postsB, post_path, post_html)
  /\ idx' = idx + 1
  /\ UNCHANGED <<pc, manifest, blog, manifestFile, manifest0, posts0, postsB0>>
  /\ UNCHANGED pipeVars
  /\ UNCHANGED retryVars
  /\ UNCHANGED textVars

\* one iteration of the loop of lines 281-287
GenWritePost ==
  /\ pc = "gen_posts"
  /\ idx <= Len(manifest)
  /\ LET entry == manifest[idx]
         title == Get(entry, "Title", Untitled)
         slug == slugify(title)
         post_path == slug \o HtmlExt
         post_html == generate_post(entry)
     IN  /\ posts' = WriteFile(posts, post_path, post_html)
         /\ postsB' = WriteFile(postsB, post_path, post_html)
  /\ idx' = idx + 1
  /\ UNCHANGED <<pc, manifest, blog, manifestFile, manifest0, posts0, postsB0>>
  /\ UNCHANGED pipeVars
  /\ UNCHANGED retryVars
  /\ UNCHANGED textVars

\* lines 291-295
GenBlogIndex ==
  /\ pc = "gen_posts"
  /\ idx > Len(manifest)
  /\ blog' = [written |-> TRUE, cards |-> generate_blog_index(manifest)]
  /\ pc' = "gen_update"
  /\ UNCHANGED <<manifest, idx, posts, postsB, manifestFile, manifest0, posts0, postsB0>>
  /\ UNCHANGED pipeVars
  /\ UNCHANGED retryVars
  /\ UNCHANGED textVars

\* GenUpdateManifest, but with entry.setdefault("blog_page", ...)
GenUpdateManifest_SetDefault ==
  /\ pc = "gen_update"
  /\ manifest' = [k \in 1..Len(manifest) |->
                    IF "blog_page" \in DOMAIN manifest[k] THEN manifest[k]
                    ELSE With(manifest[k], "blog_page",
                              BlogPage(slugify(Get(manifest[k], "Title", untitled))))]
  /\ manifestFile' = manifest'
  /\ pc' = "gen_done"
  /\ UNCHANGED <<idx, posts, postsB, blog, manifest0, posts0, postsB0>>
  /\ UNCHANGED pipeVars
  /\ UNCHANGED retryVars
  /\ UNCHANGED textVars

\* lines 297-304
GenUpdateManifest ==
  /\ pc = "gen_update"
  /\ manifest' = [k \in 1..Len(manifest) |->
                    With(manifest[k], "blog_page",
                         BlogPage(slugify(Get(manifest[k], "Title", untitled))))]
  /\ manifestFile' = manifest'
  /\ pc' = "gen_done"
  /\ UNCHANGED <<idx, posts, postsB, blog, manifest0, posts0, postsB0>>
  /\ UNCHANGED pipeVars
  /\ UNCHANGED retryVars
  /\ UNCHANGED textVars

GenNext == GenWritePost \/ GenBlogIndex \/ GenUpdateManifest

SpecGenerate == GenInit /\ [][GenNext]_vars

(***************************************************************************)
(* pipeline.py: helpers                                                    *)
(***************************************************************************)
\* pdf_url.split("/")[-1]
RECURSIVE LastSegment(_)
LastSegment(s) ==
  IF \E k \in 1..Len(s) : s[k] = "/"
  THEN LastSegment(Tail(s))
  ELSE s

\* urllib.parse.unquote_plus on names without %-escapes: "+" becomes " "
unquote_plus(s) == [k \in 1..Len(s) |-> IF s[k] = "+" THEN " " ELSE s[k]]

\* Path(name).stem: the name without its last suffix; a leading or a trailing
\* dot starts no suffix
Stem(name) ==
  LET dots == {k \in 1..Len(name) : name[k] = "."}
      last == IF dots = {} THEN 0 ELSE CHOOSE k \in dots : \A j \in dots : j <= k
  IN  IF 1 < last /\ last < Len(name) THEN SubSeq(name, 1, last - 1) ELSE name

PdfFilename(pdf_url) == unquote_plus(LastSegment(pdf_url))
TxtFilename(pdf_url) == Stem(PdfFilename(pdf_url)) \o TxtExt

\* GlobPdf, but with the pattern "*.PDF"
GlobPdf_WrongPattern(dir) == {n \in DOMAIN dir : EndsWith(n, <<".", "P", "D", "F">>)}

\* OCR_OUTPUT_DIR.glob("*.pdf")
GlobPdf(dir) == {n \in DOMAIN dir : EndsWith(n, PdfExt)}

\* the document a URL serves; a file with pages = 0 is one pdfinfo and
\* convert_from_path cannot read (a download cut short)
RemotePages(url) == IF url = U1 THEN MaxPages ELSE 1
PdfFile(n) == [kind |-> "pdf", pages |-> n]
TxtFile(t) == [kind |-> "txt", text |-> t]

\* download_pdf(url, dest): the outcomes, each the directory afterwards, the
\* return value and whether requests.get was called
download_pdf(dir, url, dest) ==
  IF dest \in DOMAIN dir
  THEN {[dir |-> dir, ok |-> TRUE, request |-> FALSE]}
  ELSE {[dir |-> WriteFile(dir, dest, PdfFile(RemotePages(url))), ok |-> TRUE,
         request |-> TRUE],
        \* requests.get or raise_for_status raised: nothing written
        [dir |-> dir, ok |-> FALSE, request |-> TRUE],
        \* iter_content raised after open(dest, "wb"): a truncated file stays
        [dir |-> WriteFile(dir, dest, PdfFile(0)), ok |-> FALSE, request |-> TRUE]}

\* get_page_count(pdf_path): 0 when pdfinfo_from_path raises
get_page_count(dir, pdf_path) ==
  IF pdf_path \in DOMAIN dir /\ dir[pdf_path].kind = "pdf" /\ dir[pdf_path].pages > 0
  THEN dir[pdf_path].pages
  ELSE 0

\* ocr_pdf without the output_txt.exists() test
ocr_pdf_Rerun(dir, pdf_path, output_txt) ==
  IF get_page_count(dir, pdf_path) = 0
  THEN [dir |-> dir, text |-> "", ran |-> TRUE, written |-> FALSE]
  ELSE [dir |-> WriteFile(dir, output_txt, TxtFile("scan")), text |-> "scan",
        ran |-> TRUE, written |-> TRUE]

\* ocr_pdf(pdf_path, output_txt): the directory afterwards, the text returned
\* and whether convert_from_path was called
ocr_pdf(dir, pdf_path, output_txt) ==
  IF output_txt \in DOMAIN dir
  THEN [dir |-> dir, text |-> dir[output_txt].text, ran |-> FALSE, written |-> FALSE]
  ELSE IF get_page_count(dir, pdf_path) = 0
  THEN [dir |-> dir, text |-> "", ran |-> TRUE, written |-> FALSE]
  ELSE [dir |-> WriteFile(dir, output_txt, TxtFile("scan")), text |-> "scan",
        ran |-> TRUE, written |-> TRUE]

\* format_ocr_text(raw_text)
format_ocr_text(raw_text) ==
  IF raw_text = "" THEN <<"not available">> ELSE <<"ocr", raw_text>>

\* generate_post_html(entry, ocr_text, slug)
generate_post_html(entry, ocr_text, slug) ==
  [title |-> escape(Get(entry, "Title", Untitled)),
   doc_type |-> escape(Get(entry, "Type", Document)),
   pdf_url |-> escape(Get(entry, "file_pdf", <<>>)),
   ocr_url |-> escape(Get(entry, "file_OCR", <<>>)),
   body |-> format_ocr_text(ocr_text)]

\* the cards of pipeline.generate_blog_index
pipeline_generate_blog_index(entries) ==
  LET sorted_entries == sorted(entries)
  IN  [k \in 1..Len(sorted_entries) |->
         [href |-> BlogPage(pipeline_slugify(Get(sorted_entries[k], "Title", untitled))),
          title |-> escape(Get(sorted_entries[k], "Title", Untitled))]]

(***************************************************************************)
(* pipeline.main                                                           *)
(***************************************************************************)
Types == {TypeSpeech, TypeMemo}

\* three documents: two with a PDF, one without; T1 and T2 share a slug
PipeDocs ==
  {[Title |-> T1, Type |-> ty, file_pdf |-> U1] : ty \in Types}
    \cup {[Title |-> T3, Type |-> ty, file_pdf |-> U2] : ty \in Types}
    \cup {[Title |-> T2, Type |-> ty, file_pdf |-> <<>>] : ty \in Types}

PipePostFile(e) == pipeline_slugify(Get(e, "Title", Untitled)) \o HtmlExt

\* what earlier runs left: pages in posts/ (their records then carry
\* blog_page) unless posts/ was emptied since, OCR text files, and a PDF of a
\* run that did not reach its cleanup; the file names of file_pdf do not end
\* in ".txt"
PipeInit ==
  /\ pc = "pipe_loop"
  /\ idx = 1
  /\ args \in [max_pages : 0..MaxPages, types : {{}, {TypeSpeech}}]
  /\ \E docs \in SeqsUpTo(PipeDocs, MaxEntries) :
       /\ \E had \in DirsOver({PipePostFile(docs[k]) : k \in 1..Len(docs)}, OldPage) :
            /\ posts \in {had, EmptyDir}
            /\ manifest = [k \in 1..Len(docs) |->
                             IF PipePostFile(docs[k]) \in DOMAIN had
                             THEN With(docs[k], "blog_page",
                                       BlogPage(pipeline_slugify(docs[k].Title)))
                             ELSE docs[k]]
       /\ \E txts \in SUBSET {TxtFilename(docs[k].file_pdf) :
                                k \in {j \in 1..Len(docs) : docs[j].file_pdf # <<>>}},
             pdfs \in SUBSET {PdfFilename(docs[k].file_pdf) :
                                k \in {j \in 1..Len(docs) : docs[j].file_pdf = U1}} :
            ocr_output = [n \in txts \cup pdfs |->
                            IF n \in txts THEN TxtFile("prev")
                            ELSE PdfFile(RemotePages(U1))]
  /\ manifestFile = manifest
  /\ manifest0 = manifest
  /\ postsB = EmptyDir
  /\ posts0 = posts
  /\ postsB0 = EmptyDir
  /\ ocr0 = ocr_output
  /\ blog = NoBlog
  /\ updated_manifest = <<>>
  /\ paths = <<>>
  /\ http = {}
  /\ ocred = {}
  /\ wrote = {}
  /\ txtWritten = {}
  /\ fn = "none"
  /\ attempt = 0
  /\ sleeps = <<>>
  /\ uploaded = "none"
  /\ deleted = FALSE
  /\ polls = 0
  /\ response = <<>>
  /\ result = <<>>
  /\ Idle("none")

\* lines 415-417, 435-442: the locals of one iteration
entry == manifest[idx]
title == Get(entry, "Title", Untitled)
pdf_url == Get(entry, "file_pdf", <<>>)
doc_type == Get(entry, "Type", <<>>)
slug == pipeline_slugify(title)
pdf_path == PdfFilename(pdf_url)
txt_path == TxtFilename(pdf_url)
post_path == slug \o HtmlExt

InLoop == pc = "pipe_loop" /\ idx <= Len(manifest)

\* line 420
TypeFiltered == args.types # {} /\ doc_type \notin args.types

\* line 445
AlreadyProcessed == post_path \in DOMAIN posts /\ txt_path \in DOMAIN ocr_output

\* line 456-458, on directory dir
OverLimit(dir) == args.max_pages # 0 /\ get_page_count(dir, pdf_path) > args.max_pages

\* KeepEntry, but the entry is not appended before the continue
KeepEntry_NoAppend(branch) ==
  LET kept == With(manifest[idx], "blog_page", Get(manifest[idx], "blog_page", <<>>))
  IN  /\ manifest' = [manifest EXCEPT ![idx] = kept]
      /\ updated_manifest' = updated_manifest
      /\ paths' = Append(paths, branch)
      /\ idx' = idx + 1

\* KeepEntry, but with entry["blog_page"] = ""
KeepEntry_Blank(branch) ==
  LET kept == With(manifest[idx], "blog_page", <<>>)
  IN  /\ manifest' = [manifest EXCEPT ![idx] = kept]
      /\ updated_manifest' = Append(updated_manifest, kept)
      /\ paths' = Append(paths, branch)
      /\ idx' = idx + 1

\* entry["blog_page"] = entry.get("blog_page", ""); updated_manifest.append(entry); continue
KeepEntry(branch) ==
  LET kept == With(entry, "blog_page", Get(entry, "blog_page", <<>>))
  IN  /\ manifest' = [manifest EXCEPT ![idx] = kept]
      /\ updated_manifest' = Append(updated_manifest, kept)
      /\ paths' = Append(paths, branch)
      /\ idx' = idx + 1

\* lines 469-476
WritePost(ocr_text, branch) ==
  LET done == With(entry, "blog_page", BlogPage(slug))
  IN  /\ posts' = WriteFile(posts, post_path, generate_post_html(entry, ocr_text, slug))
      /\ wrote' = wrote \cup {idx}
      /\ manifest' = [manifest EXCEPT ![idx] = done]
      /\ updated_manifest' = Append(updated_manifest, done)
      /\ paths' = Append(paths, branch)
      /\ idx' = idx + 1

PipeFrame ==
  UNCHANGED <<pc, args, postsB, blog, manifestFile, manifest0, posts0, postsB0, ocr0>>

\* lines 419-425
PipeSkipType ==
  /\ InLoop
  /\ TypeFiltered
  /\ KeepEntry("type")
  /\ UNCHANGED <<posts, ocr_output, http, ocred, wrote, txtWritten>>
  /\ PipeFrame
  /\ UNCHANGED retryVars
  /\ UNCHANGED textVars

\* lines 429-433
PipeNoUrl ==
  /\ InLoop
  /\ ~TypeFiltered
  /\ pdf_url = <<>>
  /\ KeepEntry("no_url")
  /\ UNCHANGED <<posts, ocr_output, http, ocred, wrote, txtWritten>>
  /\ PipeFrame
  /\ UNCHANGED retryVars
  /\ UNCHANGED textVars

\* lines 444-447, 469-476
PipeAlreadyProcessed ==
  /\ InLoop
  /\ ~TypeFiltered
  /\ pdf_url # <<>>
  /\ AlreadyProcessed
  /\ WritePost(ocr_output[txt_path].text, "already")
  /\ UNCHANGED <<ocr_output, http, ocred, txtWritten>>
  /\ PipeFrame
  /\ UNCHANGED retryVars
  /\ UNCHANGED textVars

\* lines 450-453
PipeDownloadFailed ==
  /\ InLoop
  /\ ~TypeFiltered
  /\ pdf_url # <<>>
  /\ ~AlreadyProcessed
  /\ \E d \in download_pdf(ocr_output, pdf_url, pdf_path) :
       /\ ~d.ok
       /\ ocr_output' = d.dir
       /\ http' = IF d.request THEN http \cup {idx} ELSE http
  /\ KeepEntry("download_failed")
  /\ UNCHANGED <<posts, ocred, wrote, txtWritten>>
  /\ PipeFrame
  /\ UNCHANGED retryVars
  /\ UNCHANGED textVars

\* lines 450, 456-464
PipeSkipPages ==
  /\ InLoop
  /\ ~TypeFiltered
  /\ pdf_url # <<>>
  /\ ~AlreadyProcessed
  /\ \E d \in download_pdf(ocr_output, pdf_url, pdf_path) :
       /\ d.ok
       /\ OverLimit(d.dir)
       /\ ocr_output' = Unlink(d.dir, pdf_path)
       /\ http' = IF d.request THEN http \cup {idx} ELSE http
  /\ KeepEntry("pages")
  /\ UNCHANGED <<posts, ocred, wrote, txtWritten>>
  /\ PipeFrame
  /\ UNCHANGED retryVars
  /\ UNCHANGED textVars

\* lines 450, 456-458, 467-476
PipeProcess ==
  /\ InLoop
  /\ ~TypeFiltered
  /\ pdf_url # <<>>
  /\ ~AlreadyProcessed
  /\ \E d \in download_pdf(ocr_output, pdf_url, pdf_path) :
       /\ d.ok
       /\ ~OverLimit(d.dir)
       /\ LET o == ocr_pdf(d.dir, pdf_path, txt_path)
          IN  /\ ocr_output' = o.dir
              /\ ocred' = IF o.ran THEN ocred \cup {idx} ELSE ocred
              /\ txtWritten' = IF o.written THEN txtWritten \cup {txt_path} ELSE txtWritten
              /\ WritePost(o.text, "processed")
       /\ http' = IF d.request THEN http \cup {idx} ELSE http
  /\ PipeFrame
  /\ UNCHANGED retryVars
  /\ UNCHANGED textVars

\* lines 478-489
PipeFinish ==
  /\ pc = "pipe_loop"
  /\ idx > Len(manifest)
  /\ blog' = [written |-> TRUE, cards |-> pipeline_generate_blog_index(updated_manifest)]
  /\ manifestFile' = updated_manifest
  /\ ocr_output' = [n \in DOMAIN ocr_output \ GlobPdf(ocr_output) |-> ocr_output[n]]
  /\ pc' = "pipe_done"
  /\ UNCHANGED <<manifest, idx, args, posts, postsB, updated_manifest, manifest0, posts0,
                 postsB0, ocr0, paths, http, ocred, wrote, txtWritten>>
  /\ UNCHANGED retryVars
  /\ UNCHANGED textVars

PipeNext ==
  \/ PipeSkipType
  \/ PipeNoUrl
  \/ PipeAlreadyProcessed
  \/ PipeDownloadFailed
  \/ PipeSkipPages
  \/ PipeProcess
  \/ PipeFinish

SpecPipeline == PipeInit /\ [][PipeNext]_vars

(***************************************************************************)
(* The Gemini calls: gemini_ocr.extract_chunk_with_gemini and              *)
(* gemini_html_cleanup.clean_with_gemini                                   *)
(***************************************************************************)
max_retries == 5

\* ocr_wait, but the same wait before every retry
ocr_wait_Fixed(n) == 30

\* gemini_ocr.py line 255
ocr_wait(n) == 30 * (n + 1)

\* gemini_html_cleanup.py line 101
cleanup_wait(n) == 30 * (n + 1)

\* "#" stands for the backquote character
Fence == <<"#", "#", "#">>
FenceHtml == <<"#", "#", "#", "h", "t", "m", "l">>

\* texts the model can answer with
Responses ==
  {<<"x">>,
   FenceHtml \o <<" ", "x", " ">> \o Fence,
   Fence \o <<"x">> \o Fence,
   <<" ", "x", "#", "#", "#", " ">>}

\* the tail both functions share: strip, drop a leading fence with or
\* without html, drop a trailing fence, strip
strip_code_block(text) ==
  LET t0 == Strip(text, SpaceChars)
      t1 == IF StartsWith(t0, FenceHtml) THEN SubSeq(t0, 8, Len(t0)) ELSE t0
      t2 == IF StartsWith(t1, Fence) THEN SubSeq(t1, 4, Len(t1)) ELSE t1
      t3 == IF EndsWith(t2, Fence) THEN SubSeq(t2, 1, Len(t2) - 3) ELSE t2
  IN  Strip(t3, SpaceChars)

RetryInit ==
  /\ fn \in {"clean_with_gemini", "extract_chunk_with_gemini"}
  /\ pc = IF fn = "clean_with_gemini" THEN "generate" ELSE "upload"
  /\ attempt = 0
  /\ sleeps = <<>>
  /\ uploaded = "none"
  /\ deleted = FALSE
  /\ polls = 0
  /\ response = <<>>
  /\ result = <<>>
  /\ Idle("none")
  /\ manifest = <<>>
  /\ idx = 1
  /\ args = [max_pages |-> 0, types |-> {}]
  /\ posts = EmptyDir
  /\ postsB = EmptyDir
  /\ blog = NoBlog
  /\ manifestFile = <<>>
  /\ manifest0 = <<>>
  /\ updated_manifest = <<>>
  /\ ocr_output = EmptyDir
  /\ posts0 = EmptyDir
  /\ postsB0 = EmptyDir
  /\ ocr0 = EmptyDir
  /\ paths = <<>>
  /\ http = {}
  /\ ocred = {}
  /\ wrote = {}
  /\ txtWritten = {}

RetryFrame ==
  UNCHANGED <<manifest, idx, args, posts, postsB, blog, manifestFile,
              updated_manifest, ocr_output, manifest0, posts0, postsB0, ocr0,
              paths, http, ocred, wrote, txtWritten, textVars>>

FileStates == {"PROCESSING", "ACTIVE", "FAILED"}

\* gemini_ocr.py line 223
Upload ==
  /\ pc = "upload"
  /\ uploaded' \in FileStates
  /\ pc' = "poll"
  /\ UNCHANGED <<fn, attempt, sleeps, deleted, polls, response, result>>
  /\ RetryFrame

\* gemini_ocr.py lines 226-228; the service settles a file within MaxPolls polls
Poll ==
  /\ pc = "poll"
  /\ uploaded = "PROCESSING"
  /\ polls < MaxPolls
  /\ sleeps' = Append(sleeps, [why |-> "poll", secs |-> 2])
  /\ polls' = polls + 1
  /\ uploaded' \in IF polls + 1 < MaxPolls THEN FileStates ELSE FileStates \ {"PROCESSING"}
  /\ UNCHANGED <<pc, fn, attempt, deleted, response, result>>
  /\ RetryFrame

\* gemini_ocr.py lines 230-231
UploadFailed ==
  /\ pc = "poll"
  /\ uploaded = "FAILED"
  /\ pc' = "raised"
  /\ UNCHANGED <<fn, attempt, sleeps, uploaded, deleted, polls, response, result>>
  /\ RetryFrame

\* gemini_ocr.py lines 233-239
UploadReady ==
  /\ pc = "poll"
  /\ uploaded = "ACTIVE"
  /\ pc' = "generate"
  /\ UNCHANGED <<fn, attempt, sleeps, uploaded, deleted, polls, response, result>>
  /\ RetryFrame

\* generate_content returned: break (gemini_ocr.py 241-252, gemini_html_cleanup.py 90-98)
GenerateOk ==
  /\ pc = "generate"
  /\ attempt < max_retries
  /\ response' \in Responses
  /\ pc' = IF fn = "extract_chunk_with_gemini" THEN "delete" ELSE "strip"
  /\ UNCHANGED <<fn, attempt, sleeps, uploaded, deleted, polls, result>>
  /\ RetryFrame

\* generate_content raised with "429" in the message and attempts remain
\* (gemini_ocr.py 253-257, gemini_html_cleanup.py 99-103)
GenerateRateLimited ==
  /\ pc = "generate"
  /\ attempt < max_retries - 1
  /\ sleeps' = Append(sleeps,
                      [why |-> "retry",
                       secs |-> IF fn = "extract_chunk_with_gemini"
                                THEN ocr_wait(attempt) ELSE cleanup_wait(attempt)])
  /\ attempt' = attempt + 1
  /\ UNCHANGED <<pc, fn, uploaded, deleted, polls, response, result>>
  /\ RetryFrame

\* generate_content raised something else, or "429" on the last attempt: raise
\* (gemini_ocr.py 258-259, gemini_html_cleanup.py 104-105)
GenerateRaise ==
  /\ pc = "generate"
  /\ attempt < max_retries
  /\ pc' = "raised"
  /\ UNCHANGED <<fn, attempt, sleeps, uploaded, deleted, polls, response, result>>
  /\ RetryFrame

\* gemini_ocr.py lines 261-265
DeleteUploaded ==
  /\ pc = "delete"
  /\ deleted' = TRUE
  /\ pc' = "strip"
  /\ UNCHANGED <<fn, attempt, sleeps, uploaded, polls, response, result>>
  /\ RetryFrame

\* gemini_ocr.py lines 267-275, gemini_html_cleanup.py lines 107-115
StripAndReturn ==
  /\ pc = "strip"
  /\ result' = strip_code_block(response)
  /\ pc' = "returned"
  /\ UNCHANGED <<fn, attempt, sleeps, uploaded, deleted, polls, response>>
  /\ RetryFrame

RetryNext ==
  \/ Upload
  \/ Poll
  \/ UploadFailed
  \/ UploadReady
  \/ GenerateOk
  \/ GenerateRateLimited
  \/ GenerateRaise
  \/ DeleteUploaded
  \/ StripAndReturn

SpecRetry == RetryInit /\ [][RetryNext]_vars

(***************************************************************************)
(* Python's str methods, html.unescape and the re module, as far as        *)
(* scripts/cleanup_posts.py uses them                                      *)
(***************************************************************************)
UpperLetters == <<"A", "B", "C", "D", "E", "F", "G", "H", "I", "J", "K", "L", "M", "N", "O", "P", "Q", "R", "S", "T", "U", "V", "W", "X", "Y", "Z">>
LowerLetters == <<"a", "b", "c", "d", "e", "f", "g", "h", "i", "j", "k", "l", "m", "n", "o", "p", "q", "r", "s", "t", "u", "v", "w", "x", "y", "z">>
Digits == {"0", "1", "2", "3", "4", "5", "6", "7", "8", "9"}

Chars(s) == {s[k] : k \in 1..Len(s)}
isupper(c) == c \in Chars(UpperLetters)
islower(c) == c \in Chars(LowerLetters)
isalpha(c) == isupper(c) \/ islower(c)

\* str.upper, str.lower
upper(s) ==
  [k \in 1..Len(s) |->
     IF islower(s[k])
     THEN UpperLetters[CHOOSE j \in 1..Len(LowerLetters) : LowerLetters[j] = s[k]]
     ELSE s[k]]
lower(s) ==
  [k \in 1..Len(s) |->
     IF isupper(s[k])
     THEN LowerLetters[CHOOSE j \in 1..Len(UpperLetters) : UpperLetters[j] = s[k]]
     ELSE s[k]]

\* [c for c in s if c.isalpha()], re.sub(r'[^A-Za-z]', '', s)
Letters(s) == SelectSeq(s, isalpha)

\* str.split() with no argument
RECURSIVE split(_)
split(s) ==
  LET t == DropWhile(s, SpaceChars)
      n == IF \E k \in 1..Len(t) : t[k] \in SpaceChars
           THEN CHOOSE k \in 1..Len(t) :
                  t[k] \in SpaceChars /\ \A j \in 1..(k - 1) : t[j] \notin SpaceChars
           ELSE Len(t) + 1
  IN  IF t = <<>> THEN <<>>
      ELSE <<SubSeq(t, 1, n - 1)>> \o split(SubSeq(t, n, Len(t)))

\* sep.join(list)
RECURSIVE join(_, _)
join(sep, list) ==
  IF list = <<>> THEN <<>>
  ELSE IF Len(list) = 1 THEN list[1]
  ELSE list[1] \o sep \o join(sep, Tail(list))

\* Regular expressions of the re module as trees; Ends(r, s, i) is the set of
\* positions at which a match of r that starts at position i of s can end.
Chr(S) == [t |-> "chr", S |-> S]          \* a character class [...]
NotChr(S) == [t |-> "not", S |-> S]       \* a negated class [^...]
AnyChar == NotChr({"\n"})                 \* .
NonSpace == NotChr(SpaceChars)            \* \S
End == [t |-> "end"]                      \* $
Cat(rs) == [t |-> "cat", rs |-> rs]       \* r1 r2 ...
Alt(rs) == [t |-> "alt", rs |-> rs]       \* r1|r2|...
Rep(r, lo, hi) == [t |-> "rep", r |-> r, lo |-> lo, hi |-> hi]   \* r{lo,hi}
Star(r) == Rep(r, 0, -1)                  \* r*
Plus(r) == Rep(r, 1, -1)                  \* r+
Opt(r) == Rep(r, 0, 1)                    \* r?
Lit(p) == Cat([k \in 1..Len(p) |-> Chr({p[k]})])   \* literal text

RECURSIVE Ends(_, _, _)
RECURSIVE EndsCat(_, _, _, _)
RECURSIVE EndsRep(_, _, _, _)
Ends(r, s, i) ==
  CASE r.t = "chr" -> IF i <= Len(s) /\ s[i] \in r.S THEN {i + 1} ELSE {}
    [] r.t = "not" -> IF i <= Len(s) /\ s[i] \notin r.S THEN {i + 1} ELSE {}
    [] r.t = "end" -> IF i = Len(s) + 1 THEN {i} ELSE {}
    [] r.t = "cat" -> EndsCat(r.rs, 1, s, {i})
    [] r.t = "alt" -> UNION {Ends(r.rs[k], s, i) : k \in 1..Len(r.rs)}
    [] r.t = "rep" -> EndsRep(r, 0, s, {i})
EndsCat(rs, k, s, I) ==
  IF k > Len(rs) \/ I = {} THEN I
  ELSE EndsCat(rs, k + 1, s, UNION {Ends(rs[k], s, i) : i \in I})
EndsRep(r, n, s, I) ==
  IF I = {} THEN {}
  ELSE (IF n >= r.lo THEN I ELSE {})
       \cup (IF n = r.hi THEN {}
             ELSE EndsRep(r, n + 1, s, UNION {Ends(r.r, s, i) : i \in I}))

\* re.match(r, s), re.search(r, s)
match(r, s) == Ends(r, s, 1) # {}
search(r, s) == \E i \in 1..(Len(s) + 1) : Ends(r, s, i) # {}

SetMax(S) == CHOOSE x \in S : \A y \in S : y <= x

\* re.sub(r, repl, s) from position i of s on, for patterns whose greedy match
\* is their longest match and that do not match the empty string
RECURSIVE sub(_, _, _, _)
sub(r, repl, s, i) ==
  IF i > Len(s) THEN <<>>
  ELSE IF Ends(r, s, i) \ {i} # {}
       THEN repl \o sub(r, repl, s, SetMax(Ends(r, s, i)))
       ELSE <<s[i]>> \o sub(r, repl, s, i + 1)

\* html.unescape on the entities html.escape produces
RECURSIVE unescape(_)
unescape(s) ==
  LET Entities ==
        <<[from |-> <<"&", "a", "m", "p", ";">>, to |-> "&"], [from |-> <<"&", "l", "t", ";">>, to |-> "<"],
          [from |-> <<"&", "g", "t", ";">>, to |-> ">"], [from |-> <<"&", "q", "u", "o", "t", ";">>, to |-> "\""],
          [from |-> <<"&", "#", "x", "2", "7", ";">>, to |-> "'"]>>
  IN  IF s = <<>> THEN <<>>
      ELSE IF \E k \in 1..Len(Entities) : StartsWith(s, Entities[k].from)
      THEN LET k == CHOOSE j \in 1..Len(Entities) : StartsWith(s, Entities[j].from)
           IN  <<Entities[k].to>>
               \o unescape(SubSeq(s, Len(Entities[k].from) + 1, Len(s)))
      ELSE <<Head(s)>> \o unescape(Tail(s))

(***************************************************************************)
(* scripts/cleanup_posts.py: the case functions                            *)
(***************************************************************************)
\* lines 18-28
KEEP_UPPER == {
  <<"U", "S", "S">>,
  <<"U", "S", "N">>,
  <<"U", ".", "S", ".">>,
  <<"U", ".", "S">>,
  <<"U", "S", "A">>,
  <<"U", "K">>,
  <<"N", "A", "T", "O">>,
  <<"A", "E", "C">>,
  <<"C", "I", "A">>,
  <<"F", "B", "I">>,
  <<"D", "O", "D">>,
  <<"D", "O", "E">>,
  <<"N", "A", "S", "A">>,
  <<"M", "I", "T">>,
  <<"N", "R", "C">>,
  <<"U", "S", "N", "A">>,
  <<"S", "S", "N">>,
  <<"C", "G", "N">>,
  <<"C", "V", "N">>,
  <<"F", "Y">>,
  <<"A", "E", "G", "I", "S">>,
  <<"A", "S", "W">>,
  <<"I", "C", "B", "M">>,
  <<"S", "L", "B", "M">>,
  <<"M", "X">>,
  <<"T", "V">>,
  <<"C", "B", "S">>,
  <<"N", "B", "C">>,
  <<"A", "B", "C">>,
  <<"D", "C">>,
  <<"I">>,
  <<"I", "I">>,
  <<"I", "I", "I">>,
  <<"I", "V">>,
  <<"V">>,
  <<"V", "I">>,
  <<"V", "I", "I">>,
  <<"V", "I", "I", "I">>,
  <<"I", "X">>,
  <<"X">>,
  <<"X", "I">>,
  <<"X", "I", "I">>,
  <<"X", "I", "I", "I">>,
  <<"X", "I", "V">>,
  <<"X", "V">>,
  <<"R", "O", "T", "C">>,
  <<"G", "N", "P">>,
  <<"G", "D", "P">>,
  <<"P", "h", "D">>,
  <<"D", ".", "C", ".">>,
  <<"N", ".", "Y", ".">>,
  <<"H", ".", "G", ".">>,
  <<"H", ".", "R", ".">>,
  <<"S", ".">>,
  <<"R", "&", "D">>,
  <<"P", "W", "R">>,
  <<"B", "W", "R">>,
  <<"T", "M", "I">>,
  <<"G", "P", "U">>,
  <<"N", "I", "M", "I", "T", "Z">>,
  <<"O", "H", "I", "O">>,
  <<"T", "R", "I", "D", "E", "N", "T">>,
  <<"P", "O", "L", "A", "R", "I", "S">>,
  <<"P", "O", "S", "E", "I", "D", "O", "N">>,
  <<"N", "A", "U", "T", "I", "L", "U", "S">>,
  <<"D", "N", "A">>,
  <<"R", "N", "A">>,
  <<"I", "B", "M">>,
  <<"A", "T", "&", "T">>,
  <<"G", "E">>,
  <<"L", "B", "J">>,
  <<"F", "D", "R">>,
  <<"T", "R">>,
  <<"A", "M">>,
  <<"P", "M">>,
  <<"A", "D">>,
  <<"B", "C">>,
  <<"O", "P", "E", "C">>
}

\* lines 31-32
TITLE_LOWER == {
  <<"a">>,
  <<"a", "n">>,
  <<"t", "h", "e">>,
  <<"a", "n", "d">>,
  <<"b", "u", "t">>,
  <<"o", "r">>,
  <<"f", "o", "r">>,
  <<"n", "o", "r">>,
  <<"o", "n">>,
  <<"a", "t">>,
  <<"t", "o">>,
  <<"f", "r", "o", "m">>,
  <<"b", "y">>,
  <<"i", "n">>,
  <<"o", "f">>,
  <<"w", "i", "t", "h">>,
  <<"a", "s">>,
  <<"i", "s">>
}

\* lines 35-41; upper_count / len(letters) > 0.7 in whole numbers
is_all_caps(s) ==
  LET letters == Letters(s)
      upper_count == Len(SelectSeq(letters, isupper))
  IN  Len(letters) >= 4 /\ 10 * upper_count > 7 * Len(letters)

\* lines 98-103
capitalize_first(word) ==
  IF \E i \in 1..Len(word) : isalpha(word[i])
  THEN LET i == CHOOSE j \in 1..Len(word) :
                  isalpha(word[j]) /\ \A h \in 1..(j - 1) : ~isalpha(word[h])
       IN  SubSeq(word, 1, i - 1) \o upper(<<word[i]>>) \o SubSeq(word, i + 1, Len(word))
  ELSE word

\* lines 61-64, 120-123: word_upper == acronym.replace(".", "").upper() for some acronym
is_acronym(clean_alpha) ==
  \E acronym \in KEEP_UPPER :
    upper(clean_alpha) = upper(SelectSeq(acronym, LAMBDA c : c # "."))

\* lines 67, 74, 92, 125: re.match(r'^[A-Z]\.[A-Z]\.?', word); the optional
\* last period does not change whether the pattern matches
Initials == Cat(<<Chr(Chars(UpperLetters)), Chr({"."}), Chr(Chars(UpperLetters)),
                  Opt(Chr({"."}))>>)

\* lines 73-77, 91-93
ends_sentence(word) ==
  LET stripped == DropLast(DropLast(DropLast(word, {","}), {"\""}), {"'"})
  IN  /\ stripped # <<>>
      /\ stripped[Len(stripped)] \in {".", "?", "!"}
      /\ ~match(Initials, stripped)

\* lines 53-93: the words of result from words[i] on
RECURSIVE sentence_words(_, _, _)
sentence_words(words, i, after_period) ==
  IF i > Len(words) THEN <<>>
  ELSE LET word == words[i]
           \* line 55: r'&[a-z]+;'
           Entity == Cat(<<Chr({"&"}), Plus(Chr(Chars(LowerLetters))), Chr({";"})>>)
           clean == sub(Entity, <<>>, word, 1)
           clean_alpha == Letters(clean)
           keep == is_acronym(clean_alpha) \/ match(Initials, word)
           lower_word == IF after_period \/ i = 1
                         THEN capitalize_first(lower(word)) ELSE lower(word)
       IN  <<IF keep THEN word ELSE lower_word>>
           \o sentence_words(words, i + 1, ends_sentence(word))

\* lines 44-95
sentence_case(s) ==
  IF ~is_all_caps(s) THEN s
  ELSE join(<<" ">>, sentence_words(split(s), 1, TRUE))

\* lines 106-135
title_case_smart(s) ==
  LET words == split(s)
      \* lines 115-133: what the loop appends for words[i]
      title_word(i) ==
        LET word == words[i]
            clean_alpha == Letters(word)
            keep == is_acronym(clean_alpha) \/ match(Initials, word)
        IN  IF keep THEN word
            ELSE IF i = 1 \/ lower(word) \notin TITLE_LOWER
            THEN capitalize_first(lower(word))
            ELSE lower(word)
  IN  IF ~is_all_caps(s) THEN s
      ELSE join(<<" ">>, [i \in 1..Len(words) |-> title_word(i)])

(***************************************************************************)
(* scripts/cleanup_posts.py: the paragraph filters and clean_ocr_div       *)
(***************************************************************************)
Digit == Chr(Digits)
Space == Chr(SpaceChars)
Letter == Chr(Chars(UpperLetters) \cup Chars(LowerLetters))

\* lines 138-149
is_page_number(s) ==
  LET stripped == Strip(s, SpaceChars)
  IN  \/ match(Cat(<<Rep(Digit, 1, 3), End>>), stripped)
      \/ Len(stripped) <= 4 /\ Len(Letters(stripped)) <= 1

\* lines 159-184; the copyright sign, the registered sign and e-acute are
\* outside the model's alphabet and are left out of the classes that list them
noise_patterns ==
  LET UrlScheme == Cat(<<Lit(<<"h", "t", "t", "p">>), Opt(Chr({"s"})), Lit(<<":", "/">>)>>)   \* https?:/
  IN <<
  Cat(<<Plus(Chr({";", ":", ".", ",", "-", "=", "+", "*", "|"})), End>>),
  Cat(<<Plus(Chr({"o", "e", "a", "0", "O", "-", "="} \cup SpaceChars)), End>>),
  Cat(<<Rep(Digit, 1, 3), End>>),
  Cat(<<Star(Space), End>>),
  Cat(<<Rep(Chr(Chars(LowerLetters) \cup Digits \cup SpaceChars
                \cup {"-", "=", "+", ".", ","}), 2, 8), End>>),
  Cat(<<Rep(Digit, 1, 2), Chr({"/"}), Rep(Digit, 1, 2), Chr({"/"}), Rep(Digit, 4, 4),
        Opt(Chr({","})), Star(Space), Rep(Digit, 1, 2), Chr({":"}), Rep(Digit, 2, 2),
        Star(Space), Opt(Alt(<<Lit(<<"A", "M">>), Lit(<<"P", "M">>)>>)), End>>),
  Cat(<<Rep(Digit, 1, 2), Plus(Space), Lit(<<"o", "f">>), Plus(Space), Rep(Digit, 1, 3),
        Plus(Space), Rep(Digit, 1, 2), Chr({"/"}), Rep(Digit, 1, 2), Chr({"/"}),
        Rep(Digit, 4, 4)>>),
  Cat(<<Star(AnyChar), Lit(<<"O", "p", "e", "n">>), Star(Space), Lit(<<"i", "n">>), Star(Space),
        Lit(<<"R", "e", "a", "d", "e", "r">>), Star(AnyChar)>>),
  Cat(<<Star(AnyChar), Lit(<<"A", "u", "t", "o", " ", "h", "i", "g", "h", "l", "i", "g", "h", "t", "i", "n", "g">>), Star(AnyChar)>>),
  Cat(<<Lit(<<"R", "|">>), Star(AnyChar), Chr({"Q"}), Chr({"-", "+"}), Star(AnyChar)>>),
  Cat(<<Star(AnyChar), UrlScheme, Chr({"/"}), Plus(NonSpace), Chr({"."}),
        Alt(<<Lit(<<"h", "t", "m">>), Lit(<<"h", "t", "m", "l">>), Lit(<<"o", "r", "g">>), Lit(<<"c", "o", "m">>), Lit(<<"g", "o", "v">>),
              Lit(<<"p", "d", "f">>)>>), Star(Space), End>>),
  Cat(<<Star(AnyChar), UrlScheme, Letter, Plus(NonSpace), Chr({"."}),
        Alt(<<Lit(<<"h", "t", "m">>), Lit(<<"h", "t", "m", "l">>), Lit(<<"o", "r", "g">>), Lit(<<"c", "o", "m">>), Lit(<<"g", "o", "v">>)>>),
        Star(NonSpace), Star(Space), End>>),
  Cat(<<Plus(Chr(Chars(UpperLetters) \cup SpaceChars \cup Digits
                 \cup {",", ".", "-", ";", ":", "@", ">", "(", ")"})), End>>),
  Cat(<<Star(AnyChar), Chr({"L", "l"}), Chr({"e"}), Lit(<<"a", "d", "e", "r", "s", ".", "o", "r", "g">>),
        Star(AnyChar), End>>),
  Cat(<<Lit(<<"G", "r", "o", "w", "i", "n", "g", " ", "L", "e", "a", "d", "e", "r", "s", " ", "f", "o", "r", " ", "t", "h", "e", " ", "P", "u", "b", "l", "i", "c", " ", "S", "e", "r", "v", "i", "c", "e">>), End>>),
  Cat(<<Chr({"@"}), Star(Space), Plus(Digit), Star(Space), Chr({"O"}), Star(Space),
        Plus(Digit), Star(AnyChar), Lit(<<"S", "h", "a", "r", "e">>)>>),
  Cat(<<Chr({"."}), Star(Space), Digit, Chr({")"}), Star(Space), Lit(<<"a", "e">>),
        Plus(Space), Lit(<<"i", "s", "e">>), Plus(Space), Lit(<<"g", "e", "t", "t", "y", "i", "m", "a", "g", "e", "s">>)>>),
  Cat(<<Chr({"G"}), Plus(Digit), Plus(Space), Lit(<<"c", "l", "a", "u", "d", "e">>), Plus(Space),
        Lit(<<"b", "e", "r", "u", "b", "e">>)>> )
>>

\* lines 152-188
is_ocr_noise(s) ==
  LET stripped == Strip(s, SpaceChars)
  IN  \/ Len(stripped) <= 3 /\ ~(stripped # <<>> /\ Letters(stripped) = stripped)
      \/ \E k \in 1..Len(noise_patterns) : match(noise_patterns[k], stripped)

\* lines 191-203
is_repeated_header(s) ==
  LET stripped == Strip(s, SpaceChars)
      UrlScheme == Cat(<<Lit(<<"h", "t", "t", "p">>), Opt(Chr({"s"})), Lit(<<":", "/">>)>>)   \* https?:/
      \* line 195: r'https?://?[A-Za-z]?\S+\.(htm|html|org|com|gov)'
      HeaderUrl ==
        Cat(<<UrlScheme, Opt(Chr({"/"})), Opt(Letter), Plus(NonSpace), Chr({"."}),
              Alt(<<Lit(<<"h", "t", "m">>), Lit(<<"h", "t", "m", "l">>), Lit(<<"o", "r", "g">>), Lit(<<"c", "o", "m">>),
                    Lit(<<"g", "o", "v">>)>>)>>)
      \* line 197: r'https?://\S+'
      AnyUrl == Cat(<<UrlScheme, Chr({"/"}), Plus(NonSpace)>>)
  IN  /\ search(HeaderUrl, stripped)
      /\ search(AnyUrl, stripped)
      /\ LET start == CHOOSE i \in 1..Len(stripped) :
                        /\ Ends(AnyUrl, stripped, i) # {}
                        /\ \A j \in 1..(i - 1) : Ends(AnyUrl, stripped, j) = {}
             end == SetMax(Ends(AnyUrl, stripped, start))
             non_url == Strip(SubSeq(stripped, 1, start - 1), SpaceChars)
                        \o Strip(SubSeq(stripped, end, Len(stripped)), SpaceChars)
         IN  Len(non_url) < 100

\* lines 209-226
boilerplate_patterns == <<
  Lit(<<"t", "h", "i", "s", " ", "s", "p", "e", "e", "c", "h", " ", "r", "e", "f", "l", "e", "c", "t", "s", " ", "t", "h", "e", " ", "v", "i", "e", "w", "s">>),
  Cat(<<Lit(<<"d", "o", "e", "s", " ", "n", "o", "t">>), Plus(Space), Star(AnyChar),
        Lit(<<"n", "e", "c", "e", "s", "s", "a", "r", "i", "l", "y", " ", "r", "e", "f", "l", "e", "c", "t", " ", "t", "h", "e", " ", "v", "i", "e", "w", "s">>)>>),
  Cat(<<Lit(<<"c", "o", "p", "y", "r", "i", "g", "h", "t">>), Plus(Space), Rep(Digit, 4, 4)>>),
  Cat(<<Lit(<<"c", "o", "p", "y", "r", "i", "c", "h", "t">>), Plus(Space), Rep(Digit, 4, 4)>>),
  Lit(<<"n", "o", " ", "p", "e", "r", "m", "i", "s", "s", "i", "o", "n", " ", "n", "e", "e", "d", "e", "d", " ", "f", "o", "r", " ", "n", "e", "w", "s", "p", "a", "p", "e", "r">>),
  Lit(<<"a", "b", "o", "v", "e", " ", "c", "o", "p", "y", "r", "i", "g", "h", "t", " ", "n", "o", "t", "i", "c", "e">>),
  Lit(<<"i", "f", " ", "m", "o", "s", "t", " ", "o", "f", " ", "s", "p", "e", "e", "c", "h", " ", "r", "e", "p", "r", "i", "n", "t", "e", "d">>),
  Lit(<<"d", "e", "p", "a", "r", "t", "m", "e", "n", "t", " ", "o", "f", " ", "t", "h", "e", " ", "n", "a", "v", "y">>),
  Lit(<<"d", "e", "p", "a", "r", "t", "m", "e", "n", "t", " ", "o", "f", " ", "e", "n", "e", "r", "g", "y">>),
  Lit(<<"f", "o", "r", " ", "o", "f", "f", "i", "c", "i", "a", "l", " ", "u", "s", "e", " ", "o", "n", "l", "y">>),
  Lit(<<"n", "o", "t", " ", "f", "o", "r", " ", "p", "u", "b", "l", "i", "c", "a", "t", "i", "o", "n">>),
  Cat(<<Lit(<<"e", "m", "b", "a", "r", "g", "o", "e", "d">>), Star(AnyChar), Lit(<<"u", "n", "t", "i", "l">>)>>),
  Cat(<<Lit(<<"a", "d", "v", "a", "n", "c", "e">>), Plus(Space), Lit(<<"t", "e", "x", "t">>)>>),
  Cat(<<Lit(<<"d", "e", "l", "i", "v", "e", "r", "y">>), Star(Space), Lit(<<"c", "o", "p", "y">>)>>),
  Cat(<<Lit(<<"c", "h", "e", "c", "k">>), Plus(Space), Lit(<<"a", "g", "a", "i", "n", "s", "t">>), Plus(Space), Lit(<<"d", "e", "l", "i", "v", "e", "r", "y">>)>>),
  Cat(<<Lit(<<"a", "s">>), Plus(Space), Lit(<<"p", "r", "e", "p", "a", "r", "e", "d">>), Plus(Space), Lit(<<"f", "o", "r">>),
        Plus(Space), Lit(<<"d", "e", "l", "i", "v", "e", "r", "y">>)>>)
>>

\* lines 206-230
is_boilerplate(s) ==
  LET lowered == Strip(lower(s), SpaceChars)
  IN  \E k \in 1..Len(boilerplate_patterns) : search(boilerplate_patterns[k], lowered)

\* lines 233-246; caps_run_reaches is the loop from words[i] on
has_garbled_caps(s) ==
  LET RECURSIVE caps_run_reaches(_, _, _)
      caps_run_reaches(words, i, caps_run) ==
        IF i > Len(words) THEN FALSE
        ELSE LET clean == Letters(words[i])
             IN  IF Len(clean) >= 4 /\ \A k \in 1..Len(clean) : isupper(clean[k])
                 THEN caps_run + 1 >= 4 \/ caps_run_reaches(words, i + 1, caps_run + 1)
                 ELSE caps_run_reaches(words, i + 1, 0)
  IN  caps_run_reaches(split(s), 1, 0)

\* lines 268-275: the paragraph as matched and its plain text
plain_of(p) ==
  LET Tag == Cat(<<Chr({"<"}), Plus(NotChr({">"})), Chr({">"})>>)
  IN  Strip(unescape(sub(Tag, <<" ">>, Strip(p, SpaceChars), 1)), SpaceChars)

\* lines 290-296; upper_ratio > 0.8 in whole numbers
garbled_paragraph(plain) ==
  LET alpha_chars == Letters(plain)
  IN  /\ has_garbled_caps(plain)
      /\ Len(plain) < 200
      /\ alpha_chars # <<>>
      /\ 10 * Len(SelectSeq(alpha_chars, isupper)) > 8 * Len(alpha_chars)

\* lines 308-311
RECURSIVE reescape(_)
reescape(s) ==
  IF s = <<>> THEN <<>>
  ELSE (CASE Head(s) = "&" -> <<"&", "a", "m", "p", ";">>
          [] Head(s) = "<" -> <<"&", "l", "t", ";">>
          [] Head(s) = ">" -> <<"&", "g", "t", ";">>
          [] Head(s) = "\"" -> <<"&", "q", "u", "o", "t", ";">>
          [] OTHER -> <<Head(s)>>)
       \o reescape(Tail(s))

\* lines 299-313: the paragraph appended to cleaned
converted_paragraph(p) ==
  LET Br == Lit(<<"<", "b", "r", ">">>)
      text0 == Strip(p, SpaceChars)
      lead == Cat(<<Rep(Digit, 1, 3), Star(Space), Br, Star(Space)>>)
      text1 == IF match(lead, text0)
               THEN SubSeq(text0, SetMax(Ends(lead, text0, 1)), Len(text0)) ELSE text0
      text2 == sub(Cat(<<Br, Star(Space), Rep(Digit, 1, 3), Star(Space), Br>>),
                   <<"<", "b", "r", ">">>, text1, 1)
      merged == sub(Br, <<" ">>, text2, 1)
      converted == sentence_case(unescape(merged))
  IN  <<"<", "p", ">">> \o reescape(converted) \o <<"<", "/", "p", ">">>

\* lines 266-313: the branch one paragraph of the loop takes
paragraph_fate(p) ==
  LET plain == plain_of(p)
  IN  IF Strip(p, SpaceChars) = <<>> THEN "empty"
      ELSE IF is_page_number(plain) \/ is_ocr_noise(plain) THEN "noise"
      ELSE IF is_repeated_header(plain) THEN "header"
      ELSE IF is_boilerplate(plain) THEN "boilerplate"
      ELSE IF garbled_paragraph(plain) THEN "garbled"
      ELSE "converted"

(***************************************************************************)
(* scripts/cleanup_posts.py: sentence_case and title_case_smart applied to *)
(* texts built around each entry of KEEP_UPPER                             *)
(***************************************************************************)
\* case_text: an entry of KEEP_UPPER with up to MaxContext words before and
\* after it: a plain word, a word that ends a sentence, a word of TITLE_LOWER
CaseInit ==
  /\ pc = "case_sentence"
  /\ LET CaseWords == {<<"T", "H", "E">>, <<"N", "A", "V", "Y", ".">>, <<"O", "F">>}
     IN  case_text \in {join(<<" ">>, before \o <<acronym>> \o after) :
                          before \in SeqsUpTo(CaseWords, MaxContext),
                          after \in SeqsUpTo(CaseWords, MaxContext),
                          acronym \in KEEP_UPPER}
  /\ sentence_cased = <<>>
  /\ title_cased = <<>>
  /\ Idle("case")

\* lines 44-95
ApplySentenceCase ==
  /\ pc = "case_sentence"
  /\ sentence_cased' = sentence_case(case_text)
  /\ pc' = "case_title"
  /\ UNCHANGED <<case_text, title_cased>>
  /\ Frame("case")

\* lines 106-135
ApplyTitleCase ==
  /\ pc = "case_title"
  /\ title_cased' = title_case_smart(case_text)
  /\ pc' = "case_done"
  /\ UNCHANGED <<case_text, sentence_cased>>
  /\ Frame("case")

CaseNext ==
  \/ ApplySentenceCase
  \/ ApplyTitleCase

SpecCase == CaseInit /\ [][CaseNext]_vars

(***************************************************************************)
(* scripts/cleanup_posts.py: clean_ocr_div, one step per paragraph         *)
(***************************************************************************)
\* ocr_div: paragraphs as re.findall(r'<p>(.*?)</p>') returns them: all caps, all caps
\* with a question mark, mixed case, a page number, blank, a title with a URL,
\* a boilerplate notice, a run of long upper-case words, a paragraph with <br>
\* tags and an entity
CleanInit ==
  /\ pc = "clean_loop"
  /\ LET OcrParagraphs ==
           {<<"T", "H", "E", " ", "N", "A", "V", "Y", " ", "N", "E", "E", "D", "S", " ", "A", " ", "S", "H", "I", "P", ".">>,
            <<"W", "H", "A", "T", " ", "D", "O", "E", "S", " ", "T", "H", "E", " ", "N", "A", "V", "Y", " ", "N", "E", "E", "D", "?">>,
            <<"T", "h", "e", " ", "n", "a", "v", "y", " ", "n", "e", "e", "d", "s", " ", "s", "h", "i", "p", "s", ".">>,
            <<"1", "2">>,
            <<" ">>,
            <<"S", "p", "e", "e", "c", "h", " ", "h", "t", "t", "p", ":", "/", "/", "a", ".", "o", "r", "g", "/", "s", " ", "x">>,
            <<"N", "o", "t", " ", "f", "o", "r", " ", "p", "u", "b", "l", "i", "c", "a", "t", "i", "o", "n">>,
            <<"N", "A", "V", "Y", " ", "S", "H", "I", "P", " ", "R", "E", "A", "C", "T", "O", "R", " ", "P", "L", "A", "N", "T", "!">>,
            <<"7", "<", "b", "r", ">", "W", "H", "O", " ", "F", "U", "N", "D", "S", " ", "R", "&", "a", "m", "p", ";", "D", "<", "b", "r", ">", "T", "O", "D", "A", "Y", "?">>}
     IN  ocr_div \in SeqsUpTo(OcrParagraphs, MaxParagraphs)
  /\ cleaned_paragraphs = <<>>
  /\ fates = <<>>
  /\ Idle("clean")

\* lines 266-271: the loop is at paragraph Len(fates) + 1; continue
CleanSkipEmpty ==
  /\ pc = "clean_loop"
  /\ Len(fates) < Len(ocr_div)
  /\ paragraph_fate(ocr_div[Len(fates) + 1]) = "empty"
  /\ fates' = Append(fates, [branch |-> "empty", out |-> <<>>])
  /\ UNCHANGED <<pc, ocr_div, cleaned_paragraphs>>
  /\ Frame("clean")

\* lines 278-279
CleanSkipNoise ==
  /\ pc = "clean_loop"
  /\ Len(fates) < Len(ocr_div)
  /\ paragraph_fate(ocr_div[Len(fates) + 1]) = "noise"
  /\ fates' = Append(fates, [branch |-> "noise", out |-> <<>>])
  /\ UNCHANGED <<pc, ocr_div, cleaned_paragraphs>>
  /\ Frame("clean")

\* lines 282-283
CleanSkipHeader ==
  /\ pc = "clean_loop"
  /\ Len(fates) < Len(ocr_div)
  /\ paragraph_fate(ocr_div[Len(fates) + 1]) = "header"
  /\ fates' = Append(fates, [branch |-> "header", out |-> <<>>])
  /\ UNCHANGED <<pc, ocr_div, cleaned_paragraphs>>
  /\ Frame("clean")

\* lines 286-287
CleanSkipBoilerplate ==
  /\ pc = "clean_loop"
  /\ Len(fates) < Len(ocr_div)
  /\ paragraph_fate(ocr_div[Len(fates) + 1]) = "boilerplate"
  /\ fates' = Append(fates, [branch |-> "boilerplate", out |-> <<>>])
  /\ UNCHANGED <<pc, ocr_div, cleaned_paragraphs>>
  /\ Frame("clean")

\* lines 290-296
CleanSkipGarbled ==
  /\ pc = "clean_loop"
  /\ Len(fates) < Len(ocr_div)
  /\ paragraph_fate(ocr_div[Len(fates) + 1]) = "garbled"
  /\ fates' = Append(fates, [branch |-> "garbled", out |-> <<>>])
  /\ UNCHANGED <<pc, ocr_div, cleaned_paragraphs>>
  /\ Frame("clean")

\* lines 298-313
CleanConvert ==
  /\ pc = "clean_loop"
  /\ Len(fates) < Len(ocr_div)
  /\ paragraph_fate(ocr_div[Len(fates) + 1]) = "converted"
  /\ LET p == converted_paragraph(ocr_div[Len(fates) + 1])
     IN  /\ cleaned_paragraphs' = Append(cleaned_paragraphs, p)
         /\ fates' = Append(fates, [branch |-> "converted", out |-> p])
  /\ UNCHANGED <<pc, ocr_div>>
  /\ Frame("clean")

\* line 315
CleanReturn ==
  /\ pc = "clean_loop"
  /\ Len(fates) = Len(ocr_div)
  /\ pc' = "clean_done"
  /\ UNCHANGED <<ocr_div, cleaned_paragraphs, fates>>
  /\ Frame("clean")

CleanNext ==
  \/ CleanSkipEmpty
  \/ CleanSkipNoise
  \/ CleanSkipHeader
  \/ CleanSkipBoilerplate
  \/ CleanSkipGarbled
  \/ CleanConvert
  \/ CleanReturn

SpecCleanup == CleanInit /\ [][CleanNext]_vars

(***************************************************************************)
(* scripts/gemini_html_cleanup.py: main(), one step per post               *)
(***************************************************************************)
\* lines 54-63. A post page is a record: whether it has the
\* <div class="ocr-text text-gray-800">, and the text between that tag and the
\* next </div>; \s* and strip() take spaces and newlines off the text
extract_ocr_html(page) ==
  IF page.div THEN Strip(page.inner, SpaceChars \cup {"\n"}) ELSE <<>>

\* lines 66-82
update_ocr_html(dir, name, new_html) ==
  IF ~dir[name].div THEN [ok |-> FALSE, dir |-> dir]
  ELSE [ok |-> TRUE,
        dir |-> WriteFile(dir, name,
                          [div |-> TRUE,
                           inner |-> <<"\n", " ", " ", " ", " ", " ", " ", " ", " ">> \o new_html
                                     \o <<"\n", " ", " ", " ", " ", " ", " ">>])]

\* line 150: len(ocr_html) < 100
MinOcrLen == 100
minimal_EmptyOnly(ocr_html) == ocr_html = <<>>
minimal(ocr_html) == ocr_html = <<>> \/ Len(ocr_html) < MinOcrLen

\* line 163: len(cleaned_html) < len(ocr_html) * 0.5
too_short_Quarter(cleaned_html, ocr_html) == 4 * Len(cleaned_html) < Len(ocr_html)
too_short(cleaned_html, ocr_html) == 2 * Len(cleaned_html) < Len(ocr_html)

\* response.text for a request that carried ocr_html
MainResponses(ocr_html) ==
  LET under == Take(ocr_html, (Len(ocr_html) - 1) \div 2)
      half == Take(ocr_html, (Len(ocr_html) + 1) \div 2)
  IN  {ocr_html, half, under, FenceHtml \o <<" ">> \o under \o <<" ">> \o Fence}

\* gemini_posts: entries without blog_page, naming a file that is gone, naming
\* a page of POSTS_DIR. posts: a page without the OCR div, and pages whose OCR
\* HTML has one character less than MinOcrLen, MinOcrLen characters, one more
MainInit ==
  /\ pc = "main_loop"
  /\ idx = 1
  /\ LET MainEntries ==
           {[Title |-> <<"a">>],
            [Title |-> <<"b">>, blog_page |-> BlogPage(<<"g", "o", "n", "e">>)],
            [Title |-> <<"c">>, blog_page |-> BlogPage(<<"n", "o", "d", "i", "v">>)],
            [Title |-> <<"d">>, blog_page |-> BlogPage(<<"s", "h", "o", "r", "t">>)],
            [Title |-> <<"e">>, blog_page |-> BlogPage(<<"l", "o", "n", "g">>)],
            [Title |-> <<"f">>, blog_page |-> BlogPage(<<"o", "d", "d">>)]}
     IN  gemini_posts \in SeqsUpTo(MainEntries, MaxEntries)
  /\ LET OcrHtml(n) == <<"<", "p", ">">> \o [k \in 1..(n - 7) |-> "x"] \o <<"<", "/", "p", ">">>
         PageWith(inner) == [div |-> TRUE, inner |-> inner]
     IN  posts =
           (<<"n", "o", "d", "i", "v", ".", "h", "t", "m", "l">> :> [div |-> FALSE, inner |-> <<>>])
           @@ (<<"s", "h", "o", "r", "t", ".", "h", "t", "m", "l">>
                 :> PageWith(<<"\n", " ", " ">> \o OcrHtml(MinOcrLen - 1) \o <<"\n">>))
           @@ (<<"l", "o", "n", "g", ".", "h", "t", "m", "l">>
                 :> PageWith(<<"\n", " ", " ", " ", " ", " ", " ", " ", " ">> \o OcrHtml(MinOcrLen)
                             \o <<"\n", " ", " ", " ", " ", " ", " ">>))
           @@ (<<"o", "d", "d", ".", "h", "t", "m", "l">>
                 :> PageWith(<<"\n", " ", " ">> \o OcrHtml(MinOcrLen + 1) \o <<"\n">>))
  /\ posts0 = posts
  /\ cleaned = 0
  /\ events = <<>>
  /\ paths = <<>>
  /\ wrote = {}
  /\ manifest = <<>>
  /\ args = [max_pages |-> 0, types |-> {}]
  /\ postsB = EmptyDir
  /\ blog = NoBlog
  /\ manifestFile = <<>>
  /\ updated_manifest = <<>>
  /\ ocr_output = EmptyDir
  /\ manifest0 = <<>>
  /\ postsB0 = EmptyDir
  /\ ocr0 = EmptyDir
  /\ http = {}
  /\ ocred = {}
  /\ txtWritten = {}
  /\ fn = "none"
  /\ attempt = 0
  /\ sleeps = <<>>
  /\ uploaded = "none"
  /\ deleted = FALSE
  /\ polls = 0
  /\ response = <<>>
  /\ result = <<>>
  /\ Idle("main")

\* lines 135-149: the locals of one iteration
InMainLoop == pc = "main_loop" /\ idx <= Len(gemini_posts)
main_blog_page == Get(gemini_posts[idx], "blog_page", <<>>)
main_post_path == Resolve(main_blog_page)
main_ocr_html == extract_ocr_html(posts[main_post_path])

\* the generate_content calls and sleeps of one clean_with_gemini call that is
\* rate limited k times before its last request (lines 88-105)
CallEvents(k) ==
  [j \in 1..(2 * k + 1) |->
     IF j % 2 = 1 THEN [kind |-> "generate_content", secs |-> 0]
     ELSE [kind |-> "sleep", secs |-> cleanup_wait(j \div 2 - 1)]]

\* continue: the rest of the iteration, the pause of lines 175-176 included,
\* is skipped
Continue(branch, called) ==
  /\ paths' = Append(paths, branch)
  /\ events' = events \o called
  /\ idx' = idx + 1
  /\ UNCHANGED <<posts, cleaned, wrote>>

\* lines 137-139
MainNoBlogPage ==
  /\ InMainLoop
  /\ main_blog_page = <<>>
  /\ Continue("no_blog_page", <<>>)
  /\ UNCHANGED pc
  /\ Frame("main")

\* lines 141-144
MainMissingFile ==
  /\ InMainLoop
  /\ main_blog_page # <<>>
  /\ main_post_path \notin DOMAIN posts
  /\ Continue("missing", <<>>)
  /\ UNCHANGED pc
  /\ Frame("main")

\* lines 149-152
MainMinimal ==
  /\ InMainLoop
  /\ main_blog_page # <<>>
  /\ main_post_path \in DOMAIN posts
  /\ minimal(main_ocr_html)
  /\ Continue("minimal", <<>>)
  /\ UNCHANGED pc
  /\ Frame("main")

\* lines 156-160: clean_with_gemini raised
MainRaised ==
  /\ InMainLoop
  /\ main_blog_page # <<>>
  /\ main_post_path \in DOMAIN posts
  /\ ~minimal(main_ocr_html)
  /\ \E k \in 0..(max_retries - 1) : Continue("raised", CallEvents(k))
  /\ UNCHANGED pc
  /\ Frame("main")

\* lines 156-165: clean_with_gemini returned a text that fails the sanity check
MainTooShort ==
  /\ InMainLoop
  /\ main_blog_page # <<>>
  /\ main_post_path \in DOMAIN posts
  /\ ~minimal(main_ocr_html)
  /\ \E k \in 0..(max_retries - 1), text \in MainResponses(main_ocr_html) :
       /\ too_short(strip_code_block(text), main_ocr_html)
       /\ Continue("too_short", CallEvents(k))
  /\ UNCHANGED pc
  /\ Frame("main")

\* lines 156-176: clean_with_gemini returned a text that passes it
MainUpdate ==
  /\ InMainLoop
  /\ main_blog_page # <<>>
  /\ main_post_path \in DOMAIN posts
  /\ ~minimal(main_ocr_html)
  /\ \E k \in 0..(max_retries - 1), text \in MainResponses(main_ocr_html) :
       LET cleaned_html == strip_code_block(text)
           updated == update_ocr_html(posts, main_post_path, cleaned_html)
       IN  /\ ~too_short(cleaned_html, main_ocr_html)
           /\ posts' = updated.dir
           /\ cleaned' = IF updated.ok THEN cleaned + 1 ELSE cleaned
           /\ wrote' = IF updated.ok THEN wrote \cup {idx} ELSE wrote
           /\ paths' = Append(paths, IF updated.ok THEN "updated" ELSE "update_failed")
           /\ events' = events \o CallEvents(k)
                        \o IF idx < Len(gemini_posts)
                           THEN <<[kind |-> "sleep", secs |-> 2]>> ELSE <<>>
           /\ idx' = idx + 1
  /\ UNCHANGED pc
  /\ Frame("main")

\* line 178
MainFinish ==
  /\ pc = "main_loop"
  /\ idx > Len(gemini_posts)
  /\ pc' = "main_done"
  /\ UNCHANGED <<idx, posts, cleaned, events, paths, wrote>>
  /\ Frame("main")

MainNext ==
  \/ MainNoBlogPage
  \/ MainMissingFile
  \/ MainMinimal
  \/ MainRaised
  \/ MainTooShort
  \/ MainUpdate
  \/ MainFinish

SpecCleanupMain == MainInit /\ [][MainNext]_vars

(***************************************************************************)
(* The two slugify functions applied to the same title                     *)
(***************************************************************************)
\* title_in: built from one character of each kind the functions tell apart:
\* an upper-case letter, a lower-case letter, whitespace, a hyphen, an
\* underscore, a character that is dropped
SlugInit ==
  /\ pc = "slug_generate"
  /\ title_in \in SeqsUpTo({"A", "b", " ", "-", "_", "&"}, MaxTitleLen)
  /\ slug_gen = <<>>
  /\ slug_pipe = <<>>
  /\ Idle("slug")

\* generate_pages.py lines 14-19
SlugGenerate ==
  /\ pc = "slug_generate"
  /\ slug_gen' = slugify(title_in)
  /\ pc' = "slug_pipeline"
  /\ UNCHANGED <<title_in, slug_pipe>>
  /\ Frame("slug")

\* pipeline.py lines 45-51
SlugPipeline ==
  /\ pc = "slug_pipeline"
  /\ slug_pipe' = pipeline_slugify(title_in)
  /\ pc' = "slug_done"
  /\ UNCHANGED <<title_in, slug_gen>>
  /\ Frame("slug")

SlugNext ==
  \/ SlugGenerate
  \/ SlugPipeline

SpecSlug == SlugInit /\ [][SlugNext]_vars

(***************************************************************************)
(* Properties of generate_pages.main                                       *)
(***************************************************************************)
GenPcs == {"gen_posts", "gen_update", "gen_done"}

\* C1: after generate_pages.main, every record written to manifest.json has
\* blog_page = "posts/" + slugify(Title) + ".html", and a post file exists at
\* that path.
C1_BlogPageNamesPostFile ==
  pc = "gen_done" =>
    \A k \in 1..Len(manifestFile) :
      /\ "blog_page" \in DOMAIN manifestFile[k]
      /\ manifestFile[k].blog_page
           = BlogPage(slugify(Get(manifest0[k], "Title", Untitled)))
      /\ Resolve(manifestFile[k].blog_page) \in DOMAIN posts

\* a finished run over two records, one without a Title and one that came with
\* a stale blog_page, that had to create a post file
C1_Witness ==
  /\ pc = "gen_done"
  /\ Len(manifest0) >= 2
  /\ \E k \in 1..Len(manifest0) : "Title" \notin DOMAIN manifest0[k]
  /\ \E k \in 1..Len(manifest0) :
       /\ "blog_page" \in DOMAIN manifest0[k]
       /\ manifest0[k].blog_page # manifestFile[k].blog_page
  /\ \E k \in 1..Len(manifest0) : GenPostFile(manifest0[k]) \notin DOMAIN posts0

\* C2: after generate_pages.main, the page found at each record's blog_page was
\* generated from that record (no two records share a post file).
C2_EachPageFromItsRecord ==
  pc = "gen_done" =>
    \A k \in 1..Len(manifestFile) :
      posts[Resolve(manifestFile[k].blog_page)] = generate_post(manifest0[k])

\* C6: the pages generate_pages.main has written are the same in two runs that
\* started from different posts directories, each is generate_post of a record
\* of the manifest with that file name, and each holds the placeholder
\* paragraph whatever the directory held before.
C6_PagesDependOnManifestOnly ==
  pc \in GenPcs =>
    \A k \in 1..(idx - 1) :
      LET f == GenPostFile(manifest0[k])
      IN  /\ f \in DOMAIN posts
          /\ f \in DOMAIN postsB
          /\ posts[f] = postsB[f]
          /\ posts[f].body = <<"placeholder">>
          /\ \E j \in 1..(idx - 1) :
               /\ GenPostFile(manifest0[j]) = f
               /\ posts[f] = generate_post(manifest0[j])

\* a finished run whose first directory held a page with OCR text that the
\* second directory did not have
C6_Witness ==
  /\ pc = "gen_done"
  /\ \E k \in 1..Len(manifest0) :
       LET f == GenPostFile(manifest0[k])
       IN  /\ f \in DOMAIN posts0
           /\ f \notin DOMAIN postsB0
           /\ posts0[f].body[1] = "ocr"

(***************************************************************************)
(* Properties of pipeline.main                                             *)
(***************************************************************************)
PipePcs == {"pipe_loop", "pipe_done"}

UrlOf(k) == Get(manifest0[k], "file_pdf", <<>>)
PreviousBlogPage(k) == Get(manifest0[k], "blog_page", <<>>)

\* C3: after pipeline.main on an empty posts directory, every card of blog.html
\* links to a post file that exists.
C3_EveryCardLinksToPost ==
  (pc = "pipe_done" /\ DOMAIN posts0 = {}) =>
    \A k \in 1..Len(blog.cards) : Resolve(blog.cards[k].href) \in DOMAIN posts

\* C4: updated_manifest holds the records of the entries the loop has passed, in
\* the manifest's order, and the array pipeline.main writes back has exactly
\* the loaded records in the loaded order (blog_page aside).
C4_ManifestRecordsPreserved ==
  pc \in PipePcs =>
    /\ Len(updated_manifest) = idx - 1
    /\ \A k \in 1..Len(updated_manifest) :
         Without(updated_manifest[k], "blog_page") = Without(manifest0[k], "blog_page")
    /\ pc = "pipe_done" =>
         /\ Len(manifestFile) = Len(manifest0)
         /\ \A k \in 1..Len(manifest0) :
              Without(manifestFile[k], "blog_page") = Without(manifest0[k], "blog_page")

\* a finished run over two different records that took different branches, one
\* of them a branch that continues early
C4_Witness ==
  /\ pc = "pipe_done"
  /\ Len(manifest0) >= 2
  /\ Without(manifest0[1], "blog_page") # Without(manifest0[2], "blog_page")
  /\ paths[1] \in {"type", "no_url", "download_failed", "pages"}
  /\ paths[2] \in {"already", "processed"}

\* C7: an entry whose post page and OCR text file both existed when
\* pipeline.main started keeps its post page unchanged.
C7_ExistingPostUnchanged ==
  pc = "pipe_done" =>
    \A k \in 1..Len(manifest0) :
      (/\ UrlOf(k) # <<>>
       /\ PipePostFile(manifest0[k]) \in DOMAIN posts0
       /\ TxtFilename(UrlOf(k)) \in DOMAIN ocr0)
        => posts[PipePostFile(manifest0[k])] = posts0[PipePostFile(manifest0[k])]

\* C8: with --max-pages N > 0, an entry whose PDF has more than N pages is not
\* OCRed, gets no post page written, keeps its previous blog_page, and its
\* PDF is gone from ocr_output when main returns.
C8_OverLimitNotProcessed ==
  (pc = "pipe_done" /\ args.max_pages > 0) =>
    \A k \in 1..Len(manifest0) :
      (UrlOf(k) # <<>> /\ RemotePages(UrlOf(k)) > args.max_pages) =>
        /\ k \notin ocred
        /\ k \notin wrote
        /\ manifestFile[k].blog_page = PreviousBlogPage(k)
        /\ PdfFilename(UrlOf(k)) \notin DOMAIN ocr_output

\* C9: with --types T non-empty, an entry whose Type is not in T causes no
\* download, no OCR and no post write, and is written back with its previous
\* blog_page (the empty string if it had none).
C9_FilteredEntriesUntouched ==
  (pc \in PipePcs /\ args.types # {}) =>
    \A k \in 1..(idx - 1) :
      Get(manifest0[k], "Type", <<>>) \notin args.types =>
        /\ k \notin http \cup ocred \cup wrote
        /\ updated_manifest[k].blog_page = PreviousBlogPage(k)
        /\ pc = "pipe_done" => manifestFile[k].blog_page = PreviousBlogPage(k)

\* a finished filtered run that skipped an entry which had a blog_page and
\* downloaded, OCRed and wrote a post for another entry
C9_Witness ==
  /\ pc = "pipe_done"
  /\ args.types # {}
  /\ \E k \in 1..Len(manifest0) :
       /\ Get(manifest0[k], "Type", <<>>) \notin args.types
       /\ PreviousBlogPage(k) # <<>>
       /\ paths[k] = "type"
  /\ \E j \in 1..Len(manifest0) : j \in http \cap ocred \cap wrote

\* C10: when pipeline.main returns, ocr_output holds no file named *.pdf; and
\* every .txt file that was there at the start or was written by ocr_pdf is
\* there at every later point of the run.
C10_NoPdfLeftTxtKept ==
  pc \in PipePcs =>
    /\ pc = "pipe_done" => \A n \in DOMAIN ocr_output : ~EndsWith(n, PdfExt)
    /\ \A n \in DOMAIN ocr0 \cup txtWritten :
         EndsWith(n, TxtExt) => n \in DOMAIN ocr_output

\* a finished run that found a text file in ocr_output, downloaded a PDF named
\* *.pdf and wrote a text file
C10_Witness ==
  /\ pc = "pipe_done"
  /\ \E n \in DOMAIN ocr0 : EndsWith(n, TxtExt)
  /\ \E k \in http : EndsWith(PdfFilename(UrlOf(k)), PdfExt)
  /\ txtWritten # {}

(***************************************************************************)
(* Properties of the Gemini retry loops                                    *)
(***************************************************************************)
RetrySleeps == SelectSeq(sleeps, LAMBDA z : z.why = "retry")

\* C5: the wait before a retry is the same duration on every attempt of
\* clean_with_gemini and of extract_chunk_with_gemini.
C5_FixedBackoff ==
  \A j, k \in 1..Len(RetrySleeps) : RetrySleeps[j].secs = RetrySleeps[k].secs

\* C5, amended: the wait grows linearly; the wait before the k-th retry is
\* 30 * k seconds, in clean_with_gemini and in extract_chunk_with_gemini, and
\* there are at most max_retries - 1 retries.
C5_LinearBackoff ==
  /\ Len(RetrySleeps) = attempt
  /\ attempt <= max_retries - 1
  /\ \A k \in 1..Len(RetrySleeps) : RetrySleeps[k].secs = 30 * k

\* extract_chunk_with_gemini returned after polling and after every retry the
\* loop allows
C5_Witness ==
  /\ fn = "extract_chunk_with_gemini"
  /\ pc = "returned"
  /\ polls >= 1
  /\ attempt = max_retries - 1

(***************************************************************************)
(* Properties of cleanup_posts                                             *)
(***************************************************************************)
\* C11: every paragraph of the OCR div whose letters are all upper-case and
\* which is not a page number, a repeated URL header or a boilerplate notice is
\* kept by clean_ocr_div and emitted in sentence case (no longer all caps).
C11_AllCapsParagraphsConverted ==
  pc \in {"clean_loop", "clean_done"} =>
    \A k \in 1..Len(fates) :
      LET plain == plain_of(ocr_div[k])
          letters == Letters(plain)
      IN  (/\ letters # <<>>
           /\ \A j \in 1..Len(letters) : isupper(letters[j])
           /\ ~is_page_number(plain)
           /\ ~is_repeated_header(plain)
           /\ ~is_boilerplate(plain))
          => /\ fates[k].branch = "converted"
             /\ ~is_all_caps(fates[k].out)

\* C12: in an all-caps text, every whitespace-delimited word that is an entry
\* of KEEP_UPPER appears unchanged at the same position of what sentence_case
\* and title_case_smart return.
C12_AcronymsPreserved ==
  (pc = "case_done" /\ is_all_caps(case_text)) =>
    \A k \in 1..Len(split(case_text)) :
      split(case_text)[k] \in KEEP_UPPER =>
        /\ split(sentence_cased)[k] = split(case_text)[k]
        /\ split(title_cased)[k] = split(case_text)[k]

(***************************************************************************)
(* Properties of gemini_html_cleanup.main                                  *)
(***************************************************************************)
\* C13: a step of gemini_html_cleanup.main that changes a post file leaves in
\* its OCR div a text at least half as long as the OCR HTML extracted from the
\* file before the step; a shorter cleaned text leaves the file unchanged.
C13_NeverReplacedByShortText ==
  [][\A f \in DOMAIN posts :
       posts'[f] # posts[f] =>
         2 * Len(extract_ocr_html(posts'[f])) >= Len(extract_ocr_html(posts[f]))]_vars

\* a run in which one cleaned text was rejected as too short and another was
\* written
C13_Witness ==
  /\ pc = "main_done"
  /\ \E j, k \in 1..Len(paths) : paths[j] = "too_short" /\ paths[k] = "updated"
  /\ posts # posts0

\* C14: a step for a post whose blog_page is empty, whose file is missing,
\* whose OCR content is empty or shorter than 100 characters, or whose Gemini
\* call raised, changes no file and not the cleaned counter and moves on to
\* the next post; the counter only ever grows by one, in a step that wrote the
\* post file.
C14_SkippedPostsUntouched ==
  [][/\ (/\ InMainLoop
         /\ \/ main_blog_page = <<>>
            \/ main_post_path \notin DOMAIN posts
            \/ Len(main_ocr_html) < 100
            \/ paths' = Append(paths, "raised"))
        => (posts' = posts /\ cleaned' = cleaned /\ idx' = idx + 1)
     /\ cleaned' # cleaned => (cleaned' = cleaned + 1 /\ wrote' = wrote \cup {idx})]_vars

\* a finished run that skipped a post for each of the reasons and cleaned none
C14_Witness ==
  /\ pc = "main_done"
  /\ \E k \in 1..Len(paths) : paths[k] = "raised"
  /\ \E k \in 1..Len(paths) : paths[k] \in {"no_blog_page", "missing", "minimal"}
  /\ cleaned = 0
  /\ posts = posts0

\* C16: in the calls and sleeps of one run of gemini_html_cleanup.main, a
\* generate_content request that is not the last one is followed by a sleep of
\* at least 2 seconds.
C16_PauseBetweenRequests ==
  pc \in {"main_loop", "main_done"} =>
    \A i \in 1..(Len(events) - 1) :
      events[i].kind = "generate_content" =>
        events[i + 1].kind = "sleep" /\ events[i + 1].secs >= 2

(***************************************************************************)
(* Properties of the Gemini upload, of resuming pipeline, of the slugs     *)
(***************************************************************************)
\* C15: when extract_chunk_with_gemini has returned or raised after uploading
\* a file, client.files.delete has been called for that file.
C15_UploadedFileDeleted ==
  (/\ fn = "extract_chunk_with_gemini"
   /\ pc \in {"returned", "raised"}
   /\ uploaded # "none")
  => deleted

\* C17: in a step of pipeline.main's loop, no HTTP request is made when the
\* entry's PDF is in ocr_output, no OCR is run and the text file keeps its
\* content when the entry's text file is in ocr_output, and neither a download
\* nor OCR happens when the post page and the text file both exist.
C17_NoRepeatedWork ==
  [][InLoop =>
       /\ pdf_path \in DOMAIN ocr_output => http' = http
       /\ txt_path \in DOMAIN ocr_output
            => (/\ ocred' = ocred
                /\ txt_path \in DOMAIN ocr_output'
                /\ ocr_output'[txt_path] = ocr_output[txt_path])
       /\ AlreadyProcessed => (http' = http /\ ocred' = ocred)]_vars

\* a finished run that skipped one entry as already processed and wrote the
\* page of another from a PDF and a text file it found, with no request and no
\* OCR
C17_Witness ==
  /\ pc = "pipe_done"
  /\ \E k \in 1..Len(paths) : paths[k] = "already"
  /\ \E k \in 1..Len(paths) :
       /\ paths[k] = "processed"
       /\ k \notin http
       /\ k \notin ocred
       /\ PdfFilename(UrlOf(k)) \in DOMAIN ocr0
       /\ TxtFilename(UrlOf(k)) \in DOMAIN ocr0
  /\ http = {}
  /\ ocred = {}

\* C18: generate_pages.slugify and pipeline.slugify return the same slug for
\* the title, so the blog_page built from either names the post file built
\* from the other.
C18_SameSlug ==
  pc = "slug_done" =>
    /\ slug_gen = slug_pipe
    /\ Resolve(BlogPage(slug_gen)) = slug_pipe \o HtmlExt
    /\ Resolve(BlogPage(slug_pipe)) = slug_gen \o HtmlExt

\* both functions were applied to a title that they lower-case, strip and
\* collapse to a slug that is not empty
C18_Witness ==
  /\ pc = "slug_done"
  /\ slug_gen # <<>>
  /\ Len(slug_gen) < Len(title_in)
  /\ \E k \in 1..Len(title_in) : title_in[k] = "A"
====
